---- MODULE Spec2Model ----
(***************************************************************************)
(* State reconciliation layer of Fernschreiber: TDLibWrapper               *)
(* (src/src/tdlibwrapper.cpp).  The receiver thread's signals are          *)
(* delivered, one at a time, to the wrapper's handle* slots; each slot     *)
(* folds the update into the wrapper's maps and re-emits a signal.         *)
(***************************************************************************)
EXTENDS Integers, Sequences, FiniteSets

(***************************************************************************)
(* QVariant: a tagged value.  k is the type held, v the value.             *)
(***************************************************************************)
Invalid == [k |-> "invalid", v |-> ""]
Str(s) == [k |-> "string", v |-> s]
Num(n) == [k |-> "int", v |-> n]
Map(m) == [k |-> "map", v |-> m]
Bool(b) == [k |-> "bool", v |-> b]
List(l) == [k |-> "list", v |-> l]

\* QVariantMap(): the map with no keys.
EmptyMap == [x \in {} |-> Invalid]

Digits == <<"0", "1", "2", "3", "4", "5", "6", "7", "8", "9">>

\* QString::number for a qlonglong.
RECURSIVE DecStr(_)
DecStr(n) ==
    IF n < 0 THEN "-" \o DecStr(0 - n)
    ELSE IF n < 10 THEN Digits[n + 1]
    ELSE DecStr(n \div 10) \o Digits[(n % 10) + 1]

\* QVariant::toString(): a string as is, a number in decimal, and the empty
\* string for an invalid variant or a map.
ToString(q) ==
    IF q.k = "string" THEN q.v
    ELSE IF q.k = "int" THEN DecStr(q.v)
    ELSE IF q.k = "bool" THEN (IF q.v THEN "true" ELSE "false")
    ELSE ""

\* int(QString::toLongLong()): spaces around are skipped, a sign may lead,
\* then digits only; 0 for any other string and for what no qlonglong holds.
\* The qlonglong is cut to the 32 bits of an int, kept here as two halves
\* of 16 bits.
StringToInt(s) ==
    LET \* QChar::isSpace within ASCII: the space and U+0009..U+000D (the
        \* third string holds the vertical tab).  A string of the model
        \* holds ASCII only.
        Spaces == {" ", "\t", "", "\n", "\r", "\f"}
        RECURSIVE Trimmed(_)
        Trimmed(x) ==
            IF x = "" THEN x
            ELSE IF SubSeq(x, 1, 1) \in Spaces THEN Trimmed(Tail(x))
            ELSE IF SubSeq(x, Len(x), Len(x)) \in Spaces
                 THEN Trimmed(SubSeq(x, 1, Len(x) - 1))
            ELSE x
        IsDigits(x) ==
            /\ x # ""
            /\ \A i \in 1..Len(x) : \E d \in 1..10 : Digits[d] = SubSeq(x, i, i)
        DigitValue(c) == (CHOOSE d \in 1..10 : Digits[d] = c) - 1
        RECURSIVE WithoutLeadingZeros(_)
        WithoutLeadingZeros(x) ==
            IF Len(x) > 1 /\ SubSeq(x, 1, 1) = "0"
            THEN WithoutLeadingZeros(Tail(x))
            ELSE x
        \* a <= b for two strings of digits of the same length.
        RECURSIVE DigitsLessOrEqual(_, _)
        DigitsLessOrEqual(a, b) ==
            IF a = "" THEN TRUE
            ELSE IF DigitValue(SubSeq(a, 1, 1)) < DigitValue(SubSeq(b, 1, 1)) THEN TRUE
            ELSE IF DigitValue(SubSeq(a, 1, 1)) > DigitValue(SubSeq(b, 1, 1)) THEN FALSE
            ELSE DigitsLessOrEqual(Tail(a), Tail(b))
        \* Whether the magnitude fits a qlonglong of the given sign.
        FitsLongLong(digits, negative) ==
            LET limit == IF negative THEN "9223372036854775808"
                         ELSE "9223372036854775807"
            IN  \/ Len(digits) < Len(limit)
                \/ Len(digits) = Len(limit) /\ DigitsLessOrEqual(digits, limit)
        \* The low 32 bits of the number the digits stand for.
        RECURSIVE Low32(_, _)
        Low32(digits, acc) ==
            IF digits = "" THEN acc
            ELSE LET lo == acc[2] * 10 + DigitValue(SubSeq(digits, 1, 1))
                     hi == acc[1] * 10 + (lo \div 65536)
                 IN  Low32(Tail(digits), <<hi % 65536, lo % 65536>>)
        Negated(halves) ==
            IF halves = <<0, 0>> THEN halves
            ELSE IF halves[2] = 0 THEN <<(65536 - halves[1]) % 65536, 0>>
            ELSE <<65535 - halves[1], 65536 - halves[2]>>
        AsInt(halves) ==
            IF halves[1] >= 32768
            THEN (halves[1] - 65536) * 65536 + halves[2]
            ELSE halves[1] * 65536 + halves[2]
        t        == Trimmed(s)
        signed   == t # "" /\ SubSeq(t, 1, 1) \in {"+", "-"}
        negative == signed /\ SubSeq(t, 1, 1) = "-"
        body     == IF signed THEN Tail(t) ELSE t
    IN  IF ~IsDigits(body) THEN 0
        ELSE LET digits == WithoutLeadingZeros(body)
             IN  IF ~FitsLongLong(digits, negative) THEN 0
                 ELSE IF negative THEN AsInt(Negated(Low32(digits, <<0, 0>>)))
                 ELSE AsInt(Low32(digits, <<0, 0>>))

\* QVariant::toInt(): the number held, a string parsed, 0 for what is not
\* a number.  A number of the model lies in the range of an int, where the
\* cut of a qlonglong to 32 bits changes nothing.
ToInt(q) ==
    IF q.k = "int" THEN q.v
    ELSE IF q.k = "bool" THEN (IF q.v THEN 1 ELSE 0)
    ELSE IF q.k = "string" THEN StringToInt(q.v)
    ELSE 0

\* QVariant::toMap(): the map held, or an empty map.
ToMap(q) == IF q.k = "map" THEN q.v ELSE EmptyMap

\* QVariantMap::value(key): the value, or an invalid QVariant.
Value(m, key) == IF key \in DOMAIN m THEN m[key] ELSE Invalid

\* QVariantMap::insert(key, value): adds the key or replaces its value.
Insert(m, key, value) ==
    [x \in (DOMAIN m) \cup {key} |-> IF x = key THEN value ELSE m[x]]

\* The constants of the anonymous namespace.
STATUS == "status"
_TYPE == "@type"

\* Q_NULLPTR, and QHash<qlonglong,Group*>::value(id) with its default.
NullPtr == 0
HashValue(h, id) == IF id \in DOMAIN h THEN h[id] ELSE NullPtr

(***************************************************************************)
(* The wrapper object.  groupObjects is the heap of Group records: a       *)
(* Group* is an index into it, and new Group(id) appends.                  *)
(***************************************************************************)
NewWrapper ==
    [ options                  |-> EmptyMap,
      allUsers                 |-> EmptyMap,
      userInformation          |-> EmptyMap,
      chats                    |-> EmptyMap,
      unreadMessageInformation |-> EmptyMap,
      unreadChatInformation    |-> EmptyMap,
      basicGroups              |-> [x \in {} |-> NullPtr],
      superGroups              |-> [x \in {} |-> NullPtr],
      groupObjects             |-> <<>> ]

\* What a slot returns: the wrapper after it, and the signals it emitted,
\* in order.  A signal is emitted by the wrapper in the state w it is in at
\* that statement: w is what a connected slot reads through the getters.
Result(w, signals) == [obj |-> w, signals |-> signals]
Signal(w, name, args) == [signal |-> name, args |-> args, at |-> w]

(***************************************************************************)
(* Getters.                                                                *)
(***************************************************************************)
getOwnUserInformation(w) == w.userInformation

getUserInformation(w, userId) == ToMap(Value(w.allUsers, userId))

getUnreadMessageInformation(w) == w.unreadMessageInformation

getUnreadChatInformation(w) == w.unreadChatInformation

getChat(w, chatId) == ToMap(Value(w.chats, chatId))

getBasicGroup(w, groupId) ==
    LET group == HashValue(w.basicGroups, groupId)
    IN  IF group # NullPtr THEN w.groupObjects[group].groupInfo ELSE EmptyMap

getSuperGroup(w, groupId) ==
    LET group == HashValue(w.superGroups, groupId)
    IN  IF group # NullPtr THEN w.groupObjects[group].groupInfo ELSE EmptyMap

getGroup_noZeroCheck(w, groupId) ==
    LET group == HashValue(w.superGroups, groupId)
    IN  IF group # NullPtr THEN group ELSE HashValue(w.basicGroups, groupId)

getGroup_basicFirst(w, groupId) ==
    IF groupId # 0
    THEN LET group == HashValue(w.basicGroups, groupId)
         IN  IF group # NullPtr THEN group ELSE HashValue(w.superGroups, groupId)
    ELSE NullPtr

getGroup(w, groupId) ==
    IF groupId # 0
    THEN LET group == HashValue(w.superGroups, groupId)
         IN  IF group # NullPtr THEN group ELSE HashValue(w.basicGroups, groupId)
    ELSE NullPtr

(***************************************************************************)
(* Slots.                                                                  *)
(***************************************************************************)
handleOptionUpdated_backfill(w, optionName, optionValue) ==
    LET w1 == [w EXCEPT !.options = Insert(@, optionName, optionValue)]
        w2 == IF optionName = "my_id"
              THEN [w1 EXCEPT !.userInformation =
                        getUserInformation(w, ToString(optionValue))]
              ELSE w1
    IN  Result(w2,
            <<Signal(w2, "optionUpdated", <<optionName, optionValue>>)>>
            \o (IF optionName = "my_id"
                THEN <<Signal(w2, "ownUserIdFound", <<ToString(optionValue)>>)>>
                ELSE <<>>))

handleOptionUpdated(w, optionName, optionValue) ==
    LET w1 == [w EXCEPT !.options = Insert(@, optionName, optionValue)]
    IN  Result(w1,
           <<Signal(w1, "optionUpdated", <<optionName, optionValue>>)>>
           \o (IF optionName = "my_id"
               THEN <<Signal(w1, "ownUserIdFound", <<ToString(optionValue)>>)>>
               ELSE <<>>))

handleUserUpdated_noOwn(w, userInformation) ==
    LET updatedUserId == ToString(Value(userInformation, "id"))
    IN  LET done == [w EXCEPT !.allUsers = Insert(@, updatedUserId, Map(userInformation))]
        IN  Result(done,
               <<Signal(done, "userUpdated", <<updatedUserId, userInformation>>)>>)

handleUserUpdated(w, userInformation) ==
    LET updatedUserId == ToString(Value(userInformation, "id"))
        w1 == IF updatedUserId = ToString(Value(w.options, "my_id"))
              THEN [w EXCEPT !.userInformation = userInformation]
              ELSE w
    IN  LET done == [w1 EXCEPT !.allUsers = Insert(@, updatedUserId, Map(userInformation))]
        IN  Result(done,
               <<Signal(done, "userUpdated", <<updatedUserId, userInformation>>)>>)

handleUserStatusUpdated_noOwn(w, userId, userStatusInformation) ==
    LET updatedUserInformation ==
            Insert(ToMap(Value(w.allUsers, userId)), "status",
                   Map(userStatusInformation))
    IN  LET done == [w EXCEPT !.allUsers = Insert(@, userId, Map(updatedUserInformation))]
        IN  Result(done,
               <<Signal(done, "userUpdated", <<userId, updatedUserInformation>>)>>)

handleUserStatusUpdated_dropUnknown(w, userId, userStatusInformation) ==
    LET w1 == IF userId = ToString(Value(w.options, "my_id"))
              THEN [w EXCEPT !.userInformation =
                        Insert(@, "status", Map(userStatusInformation))]
              ELSE w
        updatedUserInformation ==
            Insert(ToMap(Value(w.allUsers, userId)), "status",
                   Map(userStatusInformation))
    IN  IF userId \notin DOMAIN w.allUsers
        THEN Result(w, <<>>)
        ELSE LET done == [w1 EXCEPT !.allUsers =
                              Insert(@, userId, Map(updatedUserInformation))]
             IN  Result(done,
                    <<Signal(done, "userUpdated", <<userId, updatedUserInformation>>)>>)

handleUserStatusUpdated(w, userId, userStatusInformation) ==
    LET w1 == IF userId = ToString(Value(w.options, "my_id"))
              THEN [w EXCEPT !.userInformation =
                        Insert(@, "status", Map(userStatusInformation))]
              ELSE w
        updatedUserInformation ==
            Insert(ToMap(Value(w.allUsers, userId)), "status",
                   Map(userStatusInformation))
    IN  LET done == [w1 EXCEPT !.allUsers = Insert(@, userId, Map(updatedUserInformation))]
        IN  Result(done,
               <<Signal(done, "userUpdated", <<userId, updatedUserInformation>>)>>)

handleNewChatDiscovered_onlyLatest(w, chatInformation) ==
    LET chatId == ToString(Value(chatInformation, "id"))
    IN  LET done == [w EXCEPT !.chats = Insert(EmptyMap, chatId, Map(chatInformation))]
        IN  Result(done,
               <<Signal(done, "newChatDiscovered", <<chatId, chatInformation>>)>>)

handleNewChatDiscovered(w, chatInformation) ==
    LET chatId == ToString(Value(chatInformation, "id"))
    IN  LET done == [w EXCEPT !.chats = Insert(@, chatId, Map(chatInformation))]
        IN  Result(done,
               <<Signal(done, "newChatDiscovered", <<chatId, chatInformation>>)>>)

handleUnreadMessageCountUpdated_noFilter(w, messageCountInformation) ==
    LET done == [w EXCEPT !.unreadMessageInformation = messageCountInformation]
    IN  Result(done,
           <<Signal(done, "unreadMessageCountUpdated", <<messageCountInformation>>)>>)

handleUnreadMessageCountUpdated(w, messageCountInformation) ==
    IF ToString(Value(messageCountInformation, "chat_list_type")) = "chatListMain"
    THEN LET done == [w EXCEPT !.unreadMessageInformation = messageCountInformation]
         IN  Result(done,
                <<Signal(done, "unreadMessageCountUpdated", <<messageCountInformation>>)>>)
    ELSE Result(w, <<>>)

handleUnreadChatCountUpdated_wrongSlot(w, chatCountInformation) ==
    IF ToString(Value(chatCountInformation, "chat_list_type")) = "chatListMain"
    THEN LET done == [w EXCEPT !.unreadMessageInformation = chatCountInformation]
         IN  Result(done,
                <<Signal(done, "unreadChatCountUpdated", <<chatCountInformation>>)>>)
    ELSE Result(w, <<>>)

handleUnreadChatCountUpdated(w, chatCountInformation) ==
    IF ToString(Value(chatCountInformation, "chat_list_type")) = "chatListMain"
    THEN LET done == [w EXCEPT !.unreadChatInformation = chatCountInformation]
         IN  Result(done,
                <<Signal(done, "unreadChatCountUpdated", <<chatCountInformation>>)>>)
    ELSE Result(w, <<>>)

\* groups names the hash: "basicGroups" or "superGroups".  The result is
\* the wrapper after the call and the Group* returned.
updateGroup_alwaysNew(w, groupId, groupInfo, groups) ==
    LET group == Len(w.groupObjects) + 1
    IN  [obj |-> [w EXCEPT
                    !.groupObjects = Append(@, [groupId |-> groupId,
                                                groupInfo |-> groupInfo]),
                    ![groups] = [x \in (DOMAIN @) \cup {groupId} |->
                                    IF x = groupId THEN group ELSE @[x]]],
         group |-> group]

updateGroup_merge(w, groupId, groupInfo, groups) ==
    LET found == HashValue(w[groups], groupId)
        group == IF found = NullPtr THEN Len(w.groupObjects) + 1 ELSE found
        w1 == IF found = NullPtr
              THEN [w EXCEPT
                      !.groupObjects = Append(@, [groupId |-> groupId,
                                                  groupInfo |-> EmptyMap]),
                      ![groups] = [x \in (DOMAIN @) \cup {groupId} |->
                                      IF x = groupId THEN group ELSE @[x]]]
              ELSE w
    IN  [obj |-> [w1 EXCEPT !.groupObjects[group].groupInfo =
                     [x \in (DOMAIN @) \cup (DOMAIN groupInfo) |->
                         IF x \in DOMAIN groupInfo THEN groupInfo[x] ELSE @[x]]],
         group |-> group]

updateGroup(w, groupId, groupInfo, groups) ==
    LET found == HashValue(w[groups], groupId)
        group == IF found = NullPtr THEN Len(w.groupObjects) + 1 ELSE found
        w1 == IF found = NullPtr
              THEN [w EXCEPT
                      !.groupObjects = Append(@, [groupId |-> groupId,
                                                  groupInfo |-> EmptyMap]),
                      ![groups] = [x \in (DOMAIN @) \cup {groupId} |->
                                      IF x = groupId THEN group ELSE @[x]]]
              ELSE w
    IN  [obj |-> [w1 EXCEPT !.groupObjects[group].groupInfo = groupInfo],
         group |-> group]

handleBasicGroupUpdated_wrongRegistry(w, groupId, groupInformation) ==
    LET r == updateGroup(w, groupId, groupInformation, "superGroups")
    IN  Result(r.obj,
               <<Signal(r.obj, "basicGroupUpdated", <<r.obj.groupObjects[r.group].groupId>>)>>)

handleBasicGroupUpdated(w, groupId, groupInformation) ==
    LET r == updateGroup(w, groupId, groupInformation, "basicGroups")
    IN  Result(r.obj,
               <<Signal(r.obj, "basicGroupUpdated", <<r.obj.groupObjects[r.group].groupId>>)>>)

handleSuperGroupUpdated(w, groupId, groupInformation) ==
    LET r == updateGroup(w, groupId, groupInformation, "superGroups")
    IN  Result(r.obj,
               <<Signal(r.obj, "superGroupUpdated", <<r.obj.groupObjects[r.group].groupId>>)>>)

\* td_json_client_send: requests is what the client was sent, in order,
\* each request kept with the authorization state stored when it was sent.
sendRequest(w, requestObject) ==
    [w EXCEPT !.requests = Append(@, [requestObject |-> requestObject,
                                      authorizationState |-> w.authorizationState])]

\* The values taken from the build and the system are named, not computed.
\* hardwareSettings is what /etc/hw-release holds when it is read.
setInitialParameters(w, hardwareSettings) ==
    LET initialParameters ==
            [x \in {"api_id", "api_hash", "database_directory", "use_file_database",
                    "use_chat_info_database", "use_message_database",
                    "use_secret_chats", "system_language_code", "device_model",
                    "system_version", "application_version"} |->
                CASE x = "api_id" -> Str("TDLIB_API_ID")
                  [] x = "api_hash" -> Str("TDLIB_API_HASH")
                  [] x = "database_directory" -> Str("AppDataLocation/tdlib")
                  [] x = "use_file_database" -> Bool(TRUE)
                  [] x = "use_chat_info_database" -> Bool(TRUE)
                  [] x = "use_message_database" -> Bool(TRUE)
                  [] x = "use_secret_chats" -> Bool(FALSE)
                  [] x = "system_language_code" -> Str("QLocale::system().name()")
                  [] x = "device_model" ->
                        Str(ToString(IF "NAME" \in DOMAIN hardwareSettings
                                     THEN hardwareSettings["NAME"]
                                     ELSE Str("Unknown Mobile Device")))
                  [] x = "system_version" -> Str("QSysInfo::prettyProductName()")
                  [] x = "application_version" -> Str("0.2")]
    IN  sendRequest(w, Insert(Insert(EmptyMap, _TYPE, Str("setTdlibParameters")),
                              "parameters", Map(initialParameters)))

setEncryptionKey(w) ==
    sendRequest(w, Insert(Insert(EmptyMap, _TYPE, Str("checkDatabaseEncryptionKey")),
                          "encryption_key", Str("")))

\* The map after inserting the pairs <<key, value>> in order.
RECURSIVE Inserted(_, _)
Inserted(m, pairs) ==
    IF pairs = <<>> THEN m
    ELSE Inserted(Insert(m, pairs[1][1], pairs[1][2]), Tail(pairs))

setLogVerbosityLevel(w) ==
    sendRequest(w, Inserted(EmptyMap, << <<_TYPE, Str("setLogVerbosityLevel")>>,
                                         <<"new_verbosity_level", Num(2)>> >>))

setOptionInteger(w, optionName, optionValue) ==
    LET optionValueMap == Inserted(EmptyMap, << <<_TYPE, Str("optionValueInteger")>>,
                                                <<"value", Num(optionValue)>> >>)
    IN  sendRequest(w, Inserted(EmptyMap, << <<_TYPE, Str("setOption")>>,
                                             <<"name", Str(optionName)>>,
                                             <<"value", Map(optionValueMap)>> >>))

setAuthenticationPhoneNumber(w, phoneNumber) ==
    LET phoneNumberSettings ==
            Inserted(EmptyMap, << <<"allow_flash_call", Bool(FALSE)>>,
                                  <<"is_current_phone_number", Bool(TRUE)>> >>)
    IN  sendRequest(w, Inserted(EmptyMap, << <<_TYPE, Str("setAuthenticationPhoneNumber")>>,
                                             <<"phone_number", Str(phoneNumber)>>,
                                             <<"settings", Map(phoneNumberSettings)>> >>))

setAuthenticationCode(w, authenticationCode) ==
    sendRequest(w, Inserted(EmptyMap, << <<_TYPE, Str("checkAuthenticationCode")>>,
                                         <<"code", Str(authenticationCode)>> >>))

setAuthenticationPassword(w, authenticationPassword) ==
    sendRequest(w, Inserted(EmptyMap, << <<_TYPE, Str("checkAuthenticationPassword")>>,
                                         <<"password", Str(authenticationPassword)>> >>))

getChats(w) ==
    sendRequest(w, Inserted(EmptyMap, << <<_TYPE, Str("getChats")>>,
                                         <<"limit", Num(5)>> >>))

downloadFile(w, fileId) ==
    sendRequest(w, Inserted(EmptyMap, << <<_TYPE, Str("downloadFile")>>,
                                         <<"file_id", Str(fileId)>>,
                                         <<"synchronous", Bool(FALSE)>>,
                                         <<"offset", Num(0)>>,
                                         <<"limit", Num(0)>>,
                                         <<"priority", Num(1)>> >>))

openChat(w, chatId) ==
    sendRequest(w, Inserted(EmptyMap, << <<_TYPE, Str("openChat")>>,
                                         <<"chat_id", Str(chatId)>> >>))

closeChat(w, chatId) ==
    sendRequest(w, Inserted(EmptyMap, << <<_TYPE, Str("closeChat")>>,
                                         <<"chat_id", Str(chatId)>> >>))

getChatHistory(w, chatId, fromMessageId, offset, limit, onlyLocal) ==
    sendRequest(w, Inserted(EmptyMap, << <<_TYPE, Str("getChatHistory")>>,
                                         <<"chat_id", Str(chatId)>>,
                                         <<"from_message_id", Num(fromMessageId)>>,
                                         <<"offset", Num(offset)>>,
                                         <<"limit", Num(limit)>>,
                                         <<"only_local", Bool(onlyLocal)>> >>))

viewMessage(w, chatId, messageId) ==
    sendRequest(w, Inserted(EmptyMap, << <<_TYPE, Str("viewMessages")>>,
                                         <<"chat_id", Str(chatId)>>,
                                         <<"force_read", Bool(FALSE)>>,
                                         <<"message_ids", List(<<Str(messageId)>>)>> >>))

\* The start of the three sendMessage requests: the reply is named unless
\* it is "0".
SendMessageRequest(chatId, replyToMessageId) ==
    LET requestObject == Inserted(EmptyMap, << <<_TYPE, Str("sendMessage")>>,
                                               <<"chat_id", Str(chatId)>> >>)
    IN  IF replyToMessageId # "0"
        THEN Insert(requestObject, "reply_to_message_id", Str(replyToMessageId))
        ELSE requestObject

sendTextMessage(w, chatId, message, replyToMessageId) ==
    LET formattedText == Inserted(EmptyMap, << <<"text", Str(message)>>,
                                               <<_TYPE, Str("formattedText")>> >>)
        inputMessageContent ==
            Inserted(EmptyMap, << <<_TYPE, Str("inputMessageText")>>,
                                  <<"text", Map(formattedText)>> >>)
    IN  sendRequest(w, Insert(SendMessageRequest(chatId, replyToMessageId),
                              "input_message_content", Map(inputMessageContent)))

\* sendPhotoMessage, sendVideoMessage and sendDocumentMessage differ in the
\* @type of the content and the key the file is put under.
SendFileMessage(w, chatId, filePath, message, replyToMessageId, type, key) ==
    LET formattedText == Inserted(EmptyMap, << <<"text", Str(message)>>,
                                               <<_TYPE, Str("formattedText")>> >>)
        inputFile == Inserted(EmptyMap, << <<_TYPE, Str("inputFileLocal")>>,
                                           <<"path", Str(filePath)>> >>)
        inputMessageContent ==
            Inserted(EmptyMap, << <<_TYPE, Str(type)>>,
                                  <<"caption", Map(formattedText)>>,
                                  <<key, Map(inputFile)>> >>)
    IN  sendRequest(w, Insert(SendMessageRequest(chatId, replyToMessageId),
                              "input_message_content", Map(inputMessageContent)))

sendPhotoMessage(w, chatId, filePath, message, replyToMessageId) ==
    SendFileMessage(w, chatId, filePath, message, replyToMessageId,
                    "inputMessagePhoto", "photo")

sendVideoMessage(w, chatId, filePath, message, replyToMessageId) ==
    SendFileMessage(w, chatId, filePath, message, replyToMessageId,
                    "inputMessageVideo", "video")

sendDocumentMessage(w, chatId, filePath, message, replyToMessageId) ==
    SendFileMessage(w, chatId, filePath, message, replyToMessageId,
                    "inputMessageDocument", "document")

getMessage(w, chatId, messageId) ==
    sendRequest(w, Inserted(EmptyMap, << <<_TYPE, Str("getMessage")>>,
                                         <<"chat_id", Str(chatId)>>,
                                         <<"message_id", Str(messageId)>> >>))

setChatNotificationSettings(w, chatId, notificationSettings) ==
    sendRequest(w, Inserted(EmptyMap, << <<_TYPE, Str("setChatNotificationSettings")>>,
                                         <<"chat_id", Str(chatId)>>,
                                         <<"notification_settings",
                                           Map(notificationSettings)>> >>))

\* The formatted text of an edit carries no @type.
editMessageText(w, chatId, messageId, message) ==
    LET formattedText == Insert(EmptyMap, "text", Str(message))
        inputMessageContent ==
            Inserted(EmptyMap, << <<_TYPE, Str("inputMessageText")>>,
                                  <<"text", Map(formattedText)>> >>)
    IN  sendRequest(w, Inserted(EmptyMap, << <<_TYPE, Str("editMessageText")>>,
                                             <<"chat_id", Str(chatId)>>,
                                             <<"message_id", Str(messageId)>>,
                                             <<"input_message_content",
                                               Map(inputMessageContent)>> >>))

deleteMessages(w, chatId, messageIds) ==
    sendRequest(w, Inserted(EmptyMap, << <<_TYPE, Str("deleteMessages")>>,
                                         <<"chat_id", Str(chatId)>>,
                                         <<"message_ids", List(messageIds)>>,
                                         <<"revoke", Bool(TRUE)>> >>))

\* exists is what QFileInfo::exists() returns, copied what QFile::copy
\* does.  QFileInfo::fileName() is what follows the last slash.
copyFileToDownloads(w, filePath, exists, copied) ==
    LET RECURSIVE FileName(_)
        FileName(path) ==
            IF \E i \in 1..Len(path) : SubSeq(path, i, i) = "/"
            THEN FileName(Tail(path))
            ELSE path
        fileName == FileName(filePath)
        downloadFilePath == "DownloadLocation/" \o fileName
    IN  IF exists
        THEN IF copied
             THEN Result(w, <<Signal(w, "copyToDownloadsSuccessful",
                                     <<fileName, downloadFilePath>>)>>)
             ELSE Result(w, <<Signal(w, "copyToDownloadsError",
                                     <<fileName, downloadFilePath>>)>>)
        ELSE Result(w, <<Signal(w, "copyToDownloadsError", <<fileName, filePath>>)>>)

\* The wrapper as the constructor leaves it: the version empty, the two
\* state enums holding what the memory held, and the two requests the
\* constructor sends handed to td_json_client_send.
NewSession(authorizationState, connectionState) ==
    LET w == [ options                  |-> NewWrapper.options,
               allUsers                 |-> NewWrapper.allUsers,
               userInformation          |-> NewWrapper.userInformation,
               chats                    |-> NewWrapper.chats,
               unreadMessageInformation |-> NewWrapper.unreadMessageInformation,
               unreadChatInformation    |-> NewWrapper.unreadChatInformation,
               basicGroups              |-> NewWrapper.basicGroups,
               superGroups              |-> NewWrapper.superGroups,
               groupObjects             |-> NewWrapper.groupObjects,
               version                  |-> "",
               authorizationState       |-> authorizationState,
               connectionState          |-> connectionState,
               requests                 |-> <<>> ]
    IN  setOptionInteger(setLogVerbosityLevel(w), "notification_group_count_max", 5)

getVersion(w) == w.version
getAuthorizationState(w) == w.authorizationState
getConnectionState(w) == w.connectionState

handleVersionDetected(w, version) ==
    LET w1 == [w EXCEPT !.version = version]
    IN  Result(w1, <<Signal(w1, "versionDetected", <<version>>)>>)

\* The names handleAuthorizationStateChanged knows, and the enum value it
\* stores for each.
AuthorizationStateOf(authorizationState) ==
    CASE authorizationState = "authorizationStateClosed" -> "Closed"
      [] authorizationState = "authorizationStateClosing" -> "Closing"
      [] authorizationState = "authorizationStateLoggingOut" -> "LoggingOut"
      [] authorizationState = "authorizationStateReady" -> "AuthorizationReady"
      [] authorizationState = "authorizationStateWaitCode" -> "WaitCode"
      [] authorizationState = "authorizationStateWaitEncryptionKey" -> "WaitEncryptionKey"
      [] authorizationState = "authorizationStateWaitOtherDeviceConfirmation"
            -> "WaitOtherDeviceConfirmation"
      [] authorizationState = "authorizationStateWaitPassword" -> "WaitPassword"
      [] authorizationState = "authorizationStateWaitPhoneNumber" -> "WaitPhoneNumber"
      [] authorizationState = "authorizationStateWaitRegistration" -> "WaitRegistration"
      [] authorizationState = "authorizationStateWaitTdlibParameters"
            -> "WaitTdlibParameters"
      [] OTHER -> "none of them"

handleAuthorizationStateChanged_assignFirst(w, authorizationState, hardwareSettings) ==
    LET w1 == IF AuthorizationStateOf(authorizationState) = "none of them"
              THEN w
              ELSE [w EXCEPT !.authorizationState =
                        AuthorizationStateOf(authorizationState)]
        w2 == IF authorizationState = "authorizationStateWaitEncryptionKey"
              THEN setEncryptionKey(w1)
              ELSE IF authorizationState = "authorizationStateWaitTdlibParameters"
              THEN setInitialParameters(w1, hardwareSettings)
              ELSE w1
    IN  Result(w2, <<Signal(w2, "authorizationStateChanged", <<w2.authorizationState>>)>>)

\* hardwareSettings is what /etc/hw-release holds during the call.
handleAuthorizationStateChanged(w, authorizationState, hardwareSettings) ==
    LET w1 == IF authorizationState = "authorizationStateWaitEncryptionKey"
              THEN setEncryptionKey(w)
              ELSE IF authorizationState = "authorizationStateWaitTdlibParameters"
              THEN setInitialParameters(w, hardwareSettings)
              ELSE w
        w2 == IF AuthorizationStateOf(authorizationState) = "none of them"
              THEN w1
              ELSE [w1 EXCEPT !.authorizationState =
                        AuthorizationStateOf(authorizationState)]
    IN  Result(w2, <<Signal(w2, "authorizationStateChanged", <<w2.authorizationState>>)>>)

ConnectionStateOf(connectionState) ==
    CASE connectionState = "connectionStateConnecting" -> "Connecting"
      [] connectionState = "connectionStateConnectingToProxy" -> "ConnectingToProxy"
      [] connectionState = "connectionStateReady" -> "ConnectionReady"
      [] connectionState = "connectionStateUpdating" -> "Updating"
      [] connectionState = "connectionStateWaitingForNetwork" -> "WaitingForNetwork"
      [] OTHER -> "none of them"

handleConnectionStateChanged_emitFirst(w, connectionState) ==
    LET w1 == IF ConnectionStateOf(connectionState) = "none of them"
              THEN w
              ELSE [w EXCEPT !.connectionState = ConnectionStateOf(connectionState)]
    IN  Result(w1, <<Signal(w, "connectionStateChanged", <<w1.connectionState>>)>>)

handleConnectionStateChanged_silentUnknown(w, connectionState) ==
    IF ConnectionStateOf(connectionState) = "none of them"
    THEN Result(w, <<>>)
    ELSE LET w1 == [w EXCEPT !.connectionState = ConnectionStateOf(connectionState)]
         IN  Result(w1, <<Signal(w1, "connectionStateChanged", <<w1.connectionState>>)>>)

handleConnectionStateChanged(w, connectionState) ==
    LET w1 == IF ConnectionStateOf(connectionState) = "none of them"
              THEN w
              ELSE [w EXCEPT !.connectionState = ConnectionStateOf(connectionState)]
    IN  Result(w1, <<Signal(w1, "connectionStateChanged", <<w1.connectionState>>)>>)

handleFileUpdated(w, fileInformation) ==
    Result(w, <<Signal(w, "fileUpdated",
                       <<ToInt(Value(fileInformation, "id")), fileInformation>>)>>)

handleChatLastMessageUpdated_storing(w, chatId, order, lastMessage) ==
    LET w1 == [w EXCEPT !.chats =
                  Insert(@, chatId, Map(Insert(ToMap(Value(w.chats, chatId)),
                                               "last_message", Map(lastMessage))))]
    IN  Result(w1, <<Signal(w1, "chatLastMessageUpdated", <<chatId, order, lastMessage>>)>>)

handleChatLastMessageUpdated(w, chatId, order, lastMessage) ==
    Result(w, <<Signal(w, "chatLastMessageUpdated", <<chatId, order, lastMessage>>)>>)

handleChatOrderUpdated_silent(w, chatId, order) ==
    Result(w, <<>>)

handleChatOrderUpdated(w, chatId, order) ==
    Result(w, <<Signal(w, "chatOrderUpdated", <<chatId, order>>)>>)

handleChatReadInboxUpdated(w, chatId, lastReadInboxMessageId, unreadCount) ==
    Result(w, <<Signal(w, "chatReadInboxUpdated",
                       <<chatId, lastReadInboxMessageId, unreadCount>>)>>)

handleChatReadOutboxUpdated(w, chatId, lastReadOutboxMessageId) ==
    Result(w, <<Signal(w, "chatReadOutboxUpdated", <<chatId, lastReadOutboxMessageId>>)>>)

handleChatOnlineMemberCountUpdated(w, chatId, onlineMemberCount) ==
    Result(w, <<Signal(w, "chatOnlineMemberCountUpdated", <<chatId, onlineMemberCount>>)>>)

handleMessagesReceived(w, messages) ==
    Result(w, <<Signal(w, "messagesReceived", <<messages>>)>>)

handleNewMessageReceived(w, chatId, message) ==
    Result(w, <<Signal(w, "newMessageReceived", <<chatId, message>>)>>)

handleMessageInformation(w, messageId, message) ==
    Result(w, <<Signal(w, "receivedMessage", <<messageId, message>>)>>)

handleMessageSendSucceeded(w, messageId, oldMessageId, message) ==
    Result(w, <<Signal(w, "messageSendSucceeded", <<messageId, oldMessageId, message>>)>>)

handleUpdateActiveNotifications(w, notificationGroups) ==
    Result(w, <<Signal(w, "activeNotificationsUpdated", <<notificationGroups>>)>>)

handleUpdateNotificationGroup(w, notificationGroupUpdate) ==
    Result(w, <<Signal(w, "notificationGroupUpdated", <<notificationGroupUpdate>>)>>)

handleUpdateNotification(w, updatedNotification) ==
    Result(w, <<Signal(w, "notificationUpdated", <<updatedNotification>>)>>)

handleChatNotificationSettingsUpdated(w, chatId, chatNotificationSettings) ==
    Result(w, <<Signal(w, "chatNotificationSettingsUpdated",
                       <<chatId, chatNotificationSettings>>)>>)

handleMessageContentUpdated(w, chatId, messageId, newContent) ==
    Result(w, <<Signal(w, "messageContentUpdated", <<chatId, messageId, newContent>>)>>)

handleMessagesDeleted(w, chatId, messageIds) ==
    Result(w, <<Signal(w, "messagesDeleted", <<chatId, messageIds>>)>>)

chatMemberStatusFromString_noBanned(status) ==
    IF status = "chatMemberStatusMember" THEN "ChatMemberStatusMember"
    ELSE IF status = "chatMemberStatusLeft" THEN "ChatMemberStatusLeft"
    ELSE IF status = "chatMemberStatusCreator" THEN "ChatMemberStatusCreator"
    ELSE IF status = "chatMemberStatusAdministrator"
         THEN "ChatMemberStatusAdministrator"
    ELSE IF status = "chatMemberStatusRestricted" THEN "ChatMemberStatusRestricted"
    ELSE "ChatMemberStatusUnknown"

chatMemberStatusFromString(status) ==
    IF status = "chatMemberStatusMember" THEN "ChatMemberStatusMember"
    ELSE IF status = "chatMemberStatusLeft" THEN "ChatMemberStatusLeft"
    ELSE IF status = "chatMemberStatusCreator" THEN "ChatMemberStatusCreator"
    ELSE IF status = "chatMemberStatusAdministrator"
         THEN "ChatMemberStatusAdministrator"
    ELSE IF status = "chatMemberStatusRestricted" THEN "ChatMemberStatusRestricted"
    ELSE IF status = "chatMemberStatusBanned" THEN "ChatMemberStatusBanned"
    ELSE "ChatMemberStatusUnknown"

\* Group::chatMemberStatus() of a Group record.
chatMemberStatus(group) ==
    LET statusType == ToString(Value(ToMap(Value(group.groupInfo, STATUS)), _TYPE))
    IN  IF statusType = "" THEN "ChatMemberStatusUnknown"
        ELSE chatMemberStatusFromString(statusType)

(***************************************************************************)
(* The updates the receiver delivers.                                      *)
(***************************************************************************)
\* A map with key added unless the value is absent from the update.
With(m, key, value) == IF value = Invalid THEN m ELSE Insert(m, key, value)

OptionUpdates ==
    { <<"my_id", Str("1")>>, <<"my_id", Str("2")>>, <<"version", Str("1.6.0")>> }

UserStatusPayloads ==
    { Insert(EmptyMap, _TYPE, Str(t)) : t \in {"userStatusOnline", "userStatusOffline"} }

UserPayloads ==
    { With(With(Insert(EmptyMap, "first_name", Str(n)), "id", i), STATUS, s) :
        n \in {"Ann", "Bob"},
        i \in {Invalid, Num(1), Num(2)},
        s \in {Invalid, Map(Insert(EmptyMap, _TYPE, Str("userStatusOnline")))} }

StatusUserIds == {"", "1", "2"}

ChatPayloads ==
    { With(With(Insert(EmptyMap, "title", Str(t)), "id", i), "order", o) :
        t \in {"Team", "Home"},
        i \in {Num(100), Num(200)},
        o \in {Invalid, Str("5")} }
    \cup {EmptyMap}

UnreadPayloads ==
    { With(Insert(EmptyMap, "unread_count", Num(n)), "chat_list_type", l) :
        n \in {3, 12},
        l \in {Invalid, Str("chatListMain"), Str("chatListArchive")} }

GroupIds == {0, 1}

GroupPayloads ==
    { With(Insert(EmptyMap, "member_count", Num(4)), STATUS, s) :
        s \in {Invalid,
               Map(Insert(EmptyMap, _TYPE, Str("chatMemberStatusMember"))),
               Map(Insert(EmptyMap, _TYPE, Str("chatMemberStatusFrobnicated")))} }

\* Group metadata with every shape of status: none, one without @type,
\* an empty @type, the six known names and an unknown one.
MemberStatusNames ==
    { "chatMemberStatusMember", "chatMemberStatusLeft", "chatMemberStatusCreator",
      "chatMemberStatusAdministrator", "chatMemberStatusRestricted",
      "chatMemberStatusBanned" }

MemberStatusPayloads ==
    { With(Insert(EmptyMap, "member_count", Num(4)), STATUS, s) :
        s \in {Invalid, Map(Insert(EmptyMap, "is_member", Str("true")))}
              \cup { Map(Insert(EmptyMap, _TYPE, Str(n))) :
                       n \in MemberStatusNames
                             \cup {"", "chatMemberStatusFrobnicated"} } }

\* How many updates a run of one handler family delivers, and how many a
\* run of all the handlers together delivers.
MaxUpdates == 3
MaxReplay == 2
\* How many group updates a run over the member status shapes delivers.
MaxStatusUpdates == 2

(***************************************************************************)
(* State: the wrapper, the updates delivered to its slots so far, and the  *)
(* signals it has emitted so far.                                          *)
(***************************************************************************)
\* The receiver thread after the constructor started it: its active flag,
\* and whether the thread is running.
ReceiverStarted == [active |-> TRUE, running |-> TRUE]

\* TDLibReceiver::setActive
setActive(r, active) == [r EXCEPT !.active = active]

\* QThread::isRunning
isRunning(r) == r.running

\* ~TDLibWrapper, one statement at a time: where the destructor is after
\* the statement at pc, and the receiver as that statement leaves it.
\* "none": the destructor has not been called.
destructorStep_noWait(pc, r) ==
    [pc |-> CASE pc = "none"          -> "test"
              [] pc = "test"          -> "deleteBasic"
              [] pc = "events"        -> "test"
              [] pc = "deleteBasic"   -> "deleteSuper"
              [] pc = "deleteSuper"   -> "destroyClient"
              [] pc = "destroyClient" -> "done",
     receiver |-> IF pc = "none" THEN setActive(r, FALSE) ELSE r]

destructorStep_keepActive(pc, r) ==
    [pc |-> CASE pc = "none"          -> "test"
              [] pc = "test"          -> IF isRunning(r) THEN "events"
                                         ELSE "deleteBasic"
              [] pc = "events"        -> "test"
              [] pc = "deleteBasic"   -> "deleteSuper"
              [] pc = "deleteSuper"   -> "destroyClient"
              [] pc = "destroyClient" -> "done",
     receiver |-> r]

destructorStep(pc, r) ==
    [pc |-> CASE pc = "none"          -> "test"
              [] pc = "test"          -> IF isRunning(r) THEN "events"
                                         ELSE "deleteBasic"
              [] pc = "events"        -> "test"
              [] pc = "deleteBasic"   -> "deleteSuper"
              [] pc = "deleteSuper"   -> "destroyClient"
              [] pc = "destroyClient" -> "done",
     receiver |-> IF pc = "none" THEN setActive(r, FALSE) ELSE r]

\* The pointers a QHash<qlonglong,Group*> holds.
HashValues(hash) == { hash[x] : x \in DOMAIN hash }

(***************************************************************************)
(* NotificationManager (src/src/notificationmanager.h).  Its caches are    *)
(* chatMap, from chat id to chat information, and notificationGroups,      *)
(* from group id to the group's entry: its type, the chat it belongs to    *)
(* and its notifications.                                                  *)
(***************************************************************************)
Contexts == {"updates", "recompute"}

NewNotificationManager ==
    [ chatMap            |-> [x \in {} |-> EmptyMap],
      notificationGroups |-> [x \in {} |-> EmptyMap],
      chatListMutex      |-> "free",
      context            |-> [c \in Contexts |-> [pc |-> "idle"]],
      recomputes         |-> 0,
      presented          |-> <<>> ]

\* The notifications whose id is not in removed, in order.
RECURSIVE SelectNotifications(_, _)
SelectNotifications(notifications, removed) ==
    IF notifications = <<>> THEN <<>>
    ELSE IF Head(notifications).id \in removed
         THEN SelectNotifications(Tail(notifications), removed)
         ELSE <<Head(notifications)>> \o SelectNotifications(Tail(notifications), removed)

\* Records the chat under its id; a later discovery replaces it.
NotificationManager_handleChatDiscovered(nm, chatId, chatInformation) ==
    [nm EXCEPT !.chatMap =
        [x \in (DOMAIN @) \cup {chatId} |->
            IF x = chatId THEN chatInformation ELSE @[x]]]

\* Replaces the tracked groups by the groups given.
NotificationManager_handleUpdateActiveNotifications(nm, groups) ==
    [nm EXCEPT !.notificationGroups =
        [g \in { groups[i].groupId : i \in 1..Len(groups) } |->
            LET group == groups[CHOOSE i \in 1..Len(groups) : groups[i].groupId = g]
            IN  [type |-> group.type, chatId |-> group.chatId,
                 notifications |-> group.notifications]]]

NotificationManager_handleUpdateNotificationGroup_dropStale(nm, update) ==
    IF DecStr(update.chatId) \notin DOMAIN nm.chatMap
    THEN nm
    ELSE [nm EXCEPT !.notificationGroups =
            [g \in (DOMAIN @) \cup {update.groupId} |->
                IF g = update.groupId
                THEN [type |-> update.type, chatId |-> update.chatId,
                      notifications |-> update.added]
                ELSE @[g]]]

\* Merges the update into the entry of its group: type and chat are taken
\* from the update, the notifications removed leave and those added join.
NotificationManager_handleUpdateNotificationGroup(nm, update) ==
    LET old == IF update.groupId \in DOMAIN nm.notificationGroups
               THEN nm.notificationGroups[update.groupId].notifications
               ELSE <<>>
        entry == [type |-> update.type, chatId |-> update.chatId,
                  notifications |->
                      SelectNotifications(old, update.removed
                            \cup { update.added[i].id : i \in 1..Len(update.added) })
                      \o update.added]
    IN  [nm EXCEPT !.notificationGroups =
            [g \in (DOMAIN @) \cup {update.groupId} |->
                IF g = update.groupId THEN entry ELSE @[g]]]

\* Merges the notification into the entry of its group, if it is tracked.
NotificationManager_handleUpdateNotification(nm, updated) ==
    IF updated.groupId \notin DOMAIN nm.notificationGroups
    THEN nm
    ELSE [nm EXCEPT !.notificationGroups[updated.groupId].notifications =
            [i \in 1..Len(@) |->
                IF @[i].id = updated.notification.id THEN updated.notification ELSE @[i]]]

\* A tracked group is stale while its chat has not been discovered.
Stale(nm, groupId) ==
    DecStr(nm.notificationGroups[groupId].chatId) \notin DOMAIN nm.chatMap

\* What sendNotifications hands to the presentation: for each tracked
\* group that is not stale its id, the title of its chat and the contents
\* of its notifications.  The caches are only read.
Rendered(nm) ==
    { [groupId   |-> g,
       title     |-> ToString(Value(nm.chatMap[DecStr(nm.notificationGroups[g].chatId)],
                                    "title")),
       summaries |-> [i \in 1..Len(nm.notificationGroups[g].notifications) |->
                         nm.notificationGroups[g].notifications[i].content]] :
      g \in { x \in DOMAIN nm.notificationGroups : ~Stale(nm, x) } }

VARIABLES wrapper, delivered, emitted, destructor, receiver, client, freed,
          notificationManager, eventLoop

vars == <<wrapper, delivered, emitted, destructor, receiver, client, freed,
          notificationManager, eventLoop>>

lifecycle == <<destructor, receiver, client, freed>>

Init ==
    /\ wrapper = NewWrapper
    /\ delivered = <<>>
    /\ emitted = <<>>
    /\ destructor = "none"
    /\ receiver = ReceiverStarted
    /\ client = "created"
    /\ freed = {}
    /\ notificationManager = NewNotificationManager
    /\ eventLoop = [arrived |-> <<>>, posted |-> <<>>, emitting |-> <<>>]

\* eventLoop is the delivery of the receiver's signals to the slots: arrived
\* are the updates in the order the receiver thread signalled them, posted
\* the slot calls queued for the wrapper's thread and not yet run, emitting
\* the emits the running slot has still to do.
\*
\* One slot invocation: update is what was delivered, r what the slot did.
\* Slots run from the event loop: while the object lives, or inside the
\* destructor's processEvents.
\* emitted keeps, of each signal, its name, its arguments and the number
\* of the update whose slot emitted it: its position in delivered, which
\* is its position in arrived for a slot call taken from posted.
Emitted(signals, update) ==
    [i \in 1..Len(signals) |->
        [signal |-> signals[i].signal, args |-> signals[i].args, update |-> update]]

Deliver(update, r) ==
    /\ destructor \in {"none", "events"}
    /\ wrapper' = r.obj
    /\ emitted' = emitted \o Emitted(r.signals, Len(delivered) + 1)
    /\ delivered' = Append(delivered, update)
    /\ UNCHANGED <<lifecycle, notificationManager, eventLoop>>

OptionUpdated(max) ==
    /\ Len(delivered) < max
    /\ \E o \in OptionUpdates :
          Deliver([kind |-> "option", optionName |-> o[1], optionValue |-> o[2]],
                  handleOptionUpdated(wrapper, o[1], o[2]))

UserUpdated(max) ==
    /\ Len(delivered) < max
    /\ \E u \in UserPayloads :
          Deliver([kind |-> "user", userInformation |-> u],
                  handleUserUpdated(wrapper, u))

UserStatusUpdated(max) ==
    /\ Len(delivered) < max
    /\ \E id \in StatusUserIds, s \in UserStatusPayloads :
          Deliver([kind |-> "userStatus", userId |-> id, userStatusInformation |-> s],
                  handleUserStatusUpdated(wrapper, id, s))

NewChatDiscovered(max) ==
    /\ Len(delivered) < max
    /\ \E c \in ChatPayloads :
          Deliver([kind |-> "chat", chatInformation |-> c],
                  handleNewChatDiscovered(wrapper, c))

UnreadMessageCountUpdated(max) ==
    /\ Len(delivered) < max
    /\ \E p \in UnreadPayloads :
          Deliver([kind |-> "unreadMessageCount", information |-> p],
                  handleUnreadMessageCountUpdated(wrapper, p))

UnreadChatCountUpdated(max) ==
    /\ Len(delivered) < max
    /\ \E p \in UnreadPayloads :
          Deliver([kind |-> "unreadChatCount", information |-> p],
                  handleUnreadChatCountUpdated(wrapper, p))

BasicGroupUpdated(max) ==
    /\ Len(delivered) < max
    /\ \E g \in GroupIds, p \in GroupPayloads :
          Deliver([kind |-> "basicGroup", groupId |-> g, groupInformation |-> p],
                  handleBasicGroupUpdated(wrapper, g, p))

SuperGroupUpdated(max) ==
    /\ Len(delivered) < max
    /\ \E g \in GroupIds, p \in GroupPayloads :
          Deliver([kind |-> "superGroup", groupId |-> g, groupInformation |-> p],
                  handleSuperGroupUpdated(wrapper, g, p))

\* All the state-changing handlers together.
Next ==
    \/ OptionUpdated(MaxReplay)
    \/ UserUpdated(MaxReplay)
    \/ UserStatusUpdated(MaxReplay)
    \/ NewChatDiscovered(MaxReplay)
    \/ UnreadMessageCountUpdated(MaxReplay)
    \/ UnreadChatCountUpdated(MaxReplay)
    \/ BasicGroupUpdated(MaxReplay)
    \/ SuperGroupUpdated(MaxReplay)

Spec == Init /\ [][Next]_vars

\* The option, user and user-status handlers.
NextUsers ==
    \/ OptionUpdated(MaxUpdates)
    \/ UserUpdated(MaxUpdates)
    \/ UserStatusUpdated(MaxUpdates)

SpecUsers == Init /\ [][NextUsers]_vars

\* The chat-discovered handler.
NextChats == NewChatDiscovered(MaxUpdates)

SpecChats == Init /\ [][NextChats]_vars

\* The two unread-count handlers.
NextUnread ==
    \/ UnreadMessageCountUpdated(MaxUpdates)
    \/ UnreadChatCountUpdated(MaxUpdates)

SpecUnread == Init /\ [][NextUnread]_vars

\* The two group handlers.
NextGroups ==
    \/ BasicGroupUpdated(MaxUpdates)
    \/ SuperGroupUpdated(MaxUpdates)

SpecGroups == Init /\ [][NextGroups]_vars

\* The two group handlers, fed every shape of member status for one id.
BasicGroupStatusUpdated ==
    /\ Len(delivered) < MaxStatusUpdates
    /\ \E p \in MemberStatusPayloads :
          Deliver([kind |-> "basicGroup", groupId |-> 1, groupInformation |-> p],
                  handleBasicGroupUpdated(wrapper, 1, p))

SuperGroupStatusUpdated ==
    /\ Len(delivered) < MaxStatusUpdates
    /\ \E p \in MemberStatusPayloads :
          Deliver([kind |-> "superGroup", groupId |-> 1, groupInformation |-> p],
                  handleSuperGroupUpdated(wrapper, 1, p))

NextMemberStatus ==
    \/ BasicGroupStatusUpdated
    \/ SuperGroupStatusUpdated

SpecMemberStatus == Init /\ [][NextMemberStatus]_vars

\* What /etc/hw-release may hold when the slot for the state name a runs:
\* no NAME, or a NAME.  Only authorizationStateWaitTdlibParameters reads it.
HardwareSettings(a) ==
    IF a = "authorizationStateWaitTdlibParameters"
    THEN {EmptyMap, Insert(EmptyMap, "NAME", Str("Xperia 10"))}
    ELSE {EmptyMap}

\* One update of every kind the receiver signals, with the payloads that
\* decide what a slot emits: the option my_id and another option, the main
\* chat list and another list, a known and an unknown state name.
SignalUpdates ==
    LET Message == Insert(EmptyMap, "id", Num(7))
    IN
    { [kind |-> "version", version |-> "1.6.0"] }
    \cup UNION { { [kind |-> "authorizationState", authorizationState |-> a,
                    hardwareSettings |-> h] : h \in HardwareSettings(a) } :
                 a \in {"authorizationStateWaitTdlibParameters",
                        "authorizationStateWaitEncryptionKey",
                        "authorizationStateReady", "authorizationStateFrobnicated"} }
    \cup { [kind |-> "option", optionName |-> o[1], optionValue |-> o[2]] :
              o \in {<<"my_id", Num(1)>>, <<"version", Str("1.6.0")>>} }
    \cup { [kind |-> "connectionState", connectionState |-> c] :
              c \in {"connectionStateReady", "connectionStateFrobnicated"} }
    \cup { [kind |-> "user", userInformation |->
              Insert(Insert(EmptyMap, "first_name", Str("Ann")), "id", Num(1))] }
    \cup { [kind |-> "userStatus", userId |-> "1", userStatusInformation |->
              Insert(EmptyMap, _TYPE, Str("userStatusOnline"))] }
    \cup { [kind |-> "file", fileInformation |-> Insert(EmptyMap, "id", Str("7"))] }
    \cup { [kind |-> "chat", chatInformation |->
              Insert(Insert(EmptyMap, "title", Str("Team")), "id", Num(100))] }
    \cup { [kind |-> k, information |->
              Insert(Insert(EmptyMap, "unread_count", Num(3)), "chat_list_type", Str(l))] :
              k \in {"unreadMessageCount", "unreadChatCount"},
              l \in {"chatListMain", "chatListArchive"} }
    \cup { [kind |-> "chatLastMessage", chatId |-> "100", order |-> "5",
            lastMessage |-> Message] }
    \cup { [kind |-> "chatOrder", chatId |-> "100", order |-> "5"] }
    \cup { [kind |-> "chatReadInbox", chatId |-> "100",
            lastReadInboxMessageId |-> "7", unreadCount |-> 0] }
    \cup { [kind |-> "chatReadOutbox", chatId |-> "100",
            lastReadOutboxMessageId |-> "7"] }
    \cup { [kind |-> k, groupId |-> 1, groupInformation |->
              Insert(Insert(EmptyMap, "member_count", Num(4)), STATUS,
                     Map(Insert(EmptyMap, _TYPE, Str("chatMemberStatusMember"))))] :
              k \in {"basicGroup", "superGroup"} }
    \cup { [kind |-> "chatOnlineMemberCount", chatId |-> "100",
            onlineMemberCount |-> 2] }
    \cup { [kind |-> "messagesReceived", messages |-> <<Message>>] }
    \cup { [kind |-> "newMessage", chatId |-> "100", message |-> Message] }
    \cup { [kind |-> "messageInformation", messageId |-> "7", message |-> Message] }
    \cup { [kind |-> "messageSendSucceeded", messageId |-> "7",
            oldMessageId |-> "6", message |-> Message] }
    \cup { [kind |-> "activeNotifications", notificationGroups |-> <<Message>>] }
    \cup { [kind |-> "notificationGroup", notificationGroupUpdate |-> Message] }
    \cup { [kind |-> "notification", updatedNotification |-> Message] }
    \cup { [kind |-> "chatNotificationSettings", chatId |-> "100",
            chatNotificationSettings |-> Message] }
    \cup { [kind |-> "messageContent", chatId |-> "100", messageId |-> "7",
            newContent |-> Message] }
    \cup { [kind |-> "messagesDeleted", chatId |-> "100", messageIds |-> <<7>>] }

\* The slot each signal of the receiver is connected to, called with the
\* signal's arguments.
Handled(w, u) ==
    CASE u.kind = "version" -> handleVersionDetected(w, u.version)
      [] u.kind = "authorizationState"
            -> handleAuthorizationStateChanged(w, u.authorizationState,
                                               u.hardwareSettings)
      [] u.kind = "option" -> handleOptionUpdated(w, u.optionName, u.optionValue)
      [] u.kind = "connectionState"
            -> handleConnectionStateChanged(w, u.connectionState)
      [] u.kind = "user" -> handleUserUpdated(w, u.userInformation)
      [] u.kind = "userStatus"
            -> handleUserStatusUpdated(w, u.userId, u.userStatusInformation)
      [] u.kind = "file" -> handleFileUpdated(w, u.fileInformation)
      [] u.kind = "chat" -> handleNewChatDiscovered(w, u.chatInformation)
      [] u.kind = "unreadMessageCount"
            -> handleUnreadMessageCountUpdated(w, u.information)
      [] u.kind = "unreadChatCount"
            -> handleUnreadChatCountUpdated(w, u.information)
      [] u.kind = "chatLastMessage"
            -> handleChatLastMessageUpdated(w, u.chatId, u.order, u.lastMessage)
      [] u.kind = "chatOrder" -> handleChatOrderUpdated(w, u.chatId, u.order)
      [] u.kind = "chatReadInbox"
            -> handleChatReadInboxUpdated(w, u.chatId, u.lastReadInboxMessageId,
                                          u.unreadCount)
      [] u.kind = "chatReadOutbox"
            -> handleChatReadOutboxUpdated(w, u.chatId, u.lastReadOutboxMessageId)
      [] u.kind = "basicGroup"
            -> handleBasicGroupUpdated(w, u.groupId, u.groupInformation)
      [] u.kind = "superGroup"
            -> handleSuperGroupUpdated(w, u.groupId, u.groupInformation)
      [] u.kind = "chatOnlineMemberCount"
            -> handleChatOnlineMemberCountUpdated(w, u.chatId, u.onlineMemberCount)
      [] u.kind = "messagesReceived" -> handleMessagesReceived(w, u.messages)
      [] u.kind = "newMessage" -> handleNewMessageReceived(w, u.chatId, u.message)
      [] u.kind = "messageInformation"
            -> handleMessageInformation(w, u.messageId, u.message)
      [] u.kind = "messageSendSucceeded"
            -> handleMessageSendSucceeded(w, u.messageId, u.oldMessageId, u.message)
      [] u.kind = "activeNotifications"
            -> handleUpdateActiveNotifications(w, u.notificationGroups)
      [] u.kind = "notificationGroup"
            -> handleUpdateNotificationGroup(w, u.notificationGroupUpdate)
      [] u.kind = "notification"
            -> handleUpdateNotification(w, u.updatedNotification)
      [] u.kind = "chatNotificationSettings"
            -> handleChatNotificationSettingsUpdated(w, u.chatId,
                                                     u.chatNotificationSettings)
      [] u.kind = "messageContent"
            -> handleMessageContentUpdated(w, u.chatId, u.messageId, u.newContent)
      [] u.kind = "messagesDeleted"
            -> handleMessagesDeleted(w, u.chatId, u.messageIds)

\* The slot connected to the signal of the given kind runs.
Slot(kind, max) ==
    /\ Len(delivered) < max
    /\ \E u \in SignalUpdates :
          /\ u.kind = kind
          /\ Deliver(u, Handled(wrapper, u))

\* Updates delivered to the specification of all the slots.
MaxSignalUpdates == 2

\* The enumerators of AuthorizationState and of ConnectionState.
AuthorizationStates ==
    { "Closed", "Closing", "LoggingOut", "AuthorizationReady", "WaitCode",
      "WaitEncryptionKey", "WaitOtherDeviceConfirmation", "WaitPassword",
      "WaitPhoneNumber", "WaitRegistration", "WaitTdlibParameters" }

ConnectionStates ==
    { "Connecting", "ConnectingToProxy", "ConnectionReady", "Updating",
      "WaitingForNetwork" }

\* Every value of the underlying int that is no enumerator.  The code only
\* copies the value of a state enum (the getters, the emits of lines 565 and
\* 596) and never branches on it, so one value stands for all of them.
NoEnumerator == "no enumerator"

\* The constructor does not set the two state enums: each holds what the
\* memory held, any value of the int, an enumerator or not.
InitSignals ==
    /\ wrapper \in { NewSession(a, c) :
                       a \in AuthorizationStates \cup {NoEnumerator},
                       c \in ConnectionStates \cup {NoEnumerator} }
    /\ delivered = <<>>
    /\ emitted = <<>>
    /\ destructor = "none"
    /\ receiver = ReceiverStarted
    /\ client = "created"
    /\ freed = {}
    /\ notificationManager = NewNotificationManager
    /\ eventLoop = [arrived |-> <<>>, posted |-> <<>>, emitting |-> <<>>]

\* Every slot connected in the constructor.
NextSignals ==
    \/ Slot("version", MaxSignalUpdates)
    \/ Slot("authorizationState", MaxSignalUpdates)
    \/ Slot("option", MaxSignalUpdates)
    \/ Slot("connectionState", MaxSignalUpdates)
    \/ Slot("user", MaxSignalUpdates)
    \/ Slot("userStatus", MaxSignalUpdates)
    \/ Slot("file", MaxSignalUpdates)
    \/ Slot("chat", MaxSignalUpdates)
    \/ Slot("unreadMessageCount", MaxSignalUpdates)
    \/ Slot("unreadChatCount", MaxSignalUpdates)
    \/ Slot("chatLastMessage", MaxSignalUpdates)
    \/ Slot("chatOrder", MaxSignalUpdates)
    \/ Slot("chatReadInbox", MaxSignalUpdates)
    \/ Slot("chatReadOutbox", MaxSignalUpdates)
    \/ Slot("basicGroup", MaxSignalUpdates)
    \/ Slot("superGroup", MaxSignalUpdates)
    \/ Slot("chatOnlineMemberCount", MaxSignalUpdates)
    \/ Slot("messagesReceived", MaxSignalUpdates)
    \/ Slot("newMessage", MaxSignalUpdates)
    \/ Slot("messageInformation", MaxSignalUpdates)
    \/ Slot("messageSendSucceeded", MaxSignalUpdates)
    \/ Slot("activeNotifications", MaxSignalUpdates)
    \/ Slot("notificationGroup", MaxSignalUpdates)
    \/ Slot("notification", MaxSignalUpdates)
    \/ Slot("chatNotificationSettings", MaxSignalUpdates)
    \/ Slot("messageContent", MaxSignalUpdates)
    \/ Slot("messagesDeleted", MaxSignalUpdates)

SpecSignals == InitSignals /\ [][NextSignals]_vars

\* Updates the receiver signals in the specification of the delivery.
MaxPosted == 2

\* The receiver thread emits the signal of an update.  The wrapper lives in
\* another thread than the one emitting, so the connections of lines 61-87
\* (no connection type given) queue the slot call behind the calls queued
\* before it.
Post(u) ==
    /\ isRunning(receiver)
    /\ Len(eventLoop.arrived) < MaxPosted
    /\ eventLoop' =
          [eventLoop EXCEPT
              !.arrived = Append(@, u),
              !.posted = Append(@, [update |-> u,
                                    arrival |-> Len(eventLoop.arrived) + 1])]
    /\ UNCHANGED <<wrapper, delivered, emitted, lifecycle, notificationManager>>

\* A slot called while the slot before it is between its emits: its own
\* emits come first.
RunSlot_reentrant ==
    /\ destructor \in {"none", "events"}
    /\ eventLoop.posted # <<>>
    /\ LET event == Head(eventLoop.posted)
           r == Handled(wrapper, event.update)
       IN  /\ wrapper' = r.obj
           /\ delivered' = Append(delivered, event.update)
           /\ eventLoop' =
                 [eventLoop EXCEPT
                     !.posted = Tail(@),
                     !.emitting = Emitted(r.signals, event.arrival) \o @]
    /\ UNCHANGED <<emitted, lifecycle, notificationManager>>

\* The event loop of the wrapper's thread takes the slot call queued first
\* and runs the slot: its requests and its assignments, which in every
\* slot come before its emits.  No slot calls processEvents, so the next
\* call is taken when the slot has returned.
RunSlot ==
    /\ destructor \in {"none", "events"}
    /\ eventLoop.posted # <<>>
    /\ eventLoop.emitting = <<>>
    /\ LET event == Head(eventLoop.posted)
           r == Handled(wrapper, event.update)
       IN  /\ wrapper' = r.obj
           /\ delivered' = Append(delivered, event.update)
           /\ eventLoop' =
                 [eventLoop EXCEPT
                     !.posted = Tail(@),
                     !.emitting = Emitted(r.signals, event.arrival)]
    /\ UNCHANGED <<emitted, lifecycle, notificationManager>>

\* The running slot's next emit: the connected subscribers are called and
\* return.
Emit ==
    /\ eventLoop.emitting # <<>>
    /\ emitted' = Append(emitted, Head(eventLoop.emitting))
    /\ eventLoop' = [eventLoop EXCEPT !.emitting = Tail(@)]
    /\ UNCHANGED <<wrapper, delivered, lifecycle, notificationManager>>

\* The receiver thread signalling any update, next to the wrapper's thread
\* running the slots.
NextDelivery ==
    \/ \E u \in SignalUpdates : Post(u)
    \/ RunSlot
    \/ Emit

SpecDelivery == InitSignals /\ [][NextDelivery]_vars

\* The statements of ~TDLibWrapper.
DestructorSetActive ==
    /\ destructor = "none"
    /\ destructor' = destructorStep(destructor, receiver).pc
    /\ receiver' = destructorStep(destructor, receiver).receiver
    /\ UNCHANGED <<eventLoop, notificationManager, wrapper, delivered, emitted, client, freed>>

DestructorTestRunning ==
    /\ destructor = "test"
    /\ destructor' = destructorStep(destructor, receiver).pc
    /\ UNCHANGED <<eventLoop, notificationManager, wrapper, delivered, emitted, receiver, client, freed>>

\* processEvents returns; the slots it ran are the deliveries before this.
DestructorProcessEventsReturns ==
    /\ destructor = "events"
    /\ destructor' = destructorStep(destructor, receiver).pc
    /\ UNCHANGED <<eventLoop, notificationManager, wrapper, delivered, emitted, receiver, client, freed>>

DestructorDeleteBasicGroups ==
    /\ destructor = "deleteBasic"
    /\ freed' = freed \cup HashValues(wrapper.basicGroups)
    /\ destructor' = destructorStep(destructor, receiver).pc
    /\ UNCHANGED <<eventLoop, notificationManager, wrapper, delivered, emitted, receiver, client>>

DestructorDeleteSuperGroups ==
    /\ destructor = "deleteSuper"
    /\ freed' = freed \cup HashValues(wrapper.superGroups)
    /\ destructor' = destructorStep(destructor, receiver).pc
    /\ UNCHANGED <<eventLoop, notificationManager, wrapper, delivered, emitted, receiver, client>>

DestructorDestroyClient ==
    /\ destructor = "destroyClient"
    /\ client' = "destroyed"
    /\ destructor' = destructorStep(destructor, receiver).pc
    /\ UNCHANGED <<eventLoop, notificationManager, wrapper, delivered, emitted, receiver, freed>>

Destructor ==
    \/ DestructorSetActive
    \/ DestructorTestRunning
    \/ DestructorProcessEventsReturns
    \/ DestructorDeleteBasicGroups
    \/ DestructorDeleteSuperGroups
    \/ DestructorDestroyClient

\* The receiver thread sees its active flag cleared and its run() returns.
ReceiverExit ==
    /\ isRunning(receiver)
    /\ ~receiver.active
    /\ receiver' = [receiver EXCEPT !.running = FALSE]
    /\ UNCHANGED <<eventLoop, notificationManager, wrapper, delivered, emitted, destructor, client, freed>>

\* Updates delivered to the lifecycle specification.
MaxLifecycleUpdates == 2

\* Group updates, the destructor and the receiver thread.
NextLifecycle ==
    \/ BasicGroupUpdated(MaxLifecycleUpdates)
    \/ SuperGroupUpdated(MaxLifecycleUpdates)
    \/ Destructor
    \/ ReceiverExit

SpecLifecycle == Init /\ [][NextLifecycle]_vars

\* The same with both threads scheduled: the main thread goes on with the
\* destructor it is in, and the receiver thread goes on running.
FairSpecLifecycle ==
    /\ SpecLifecycle
    /\ WF_vars(Destructor /\ destructor # "none")
    /\ WF_vars(ReceiverExit)

(***************************************************************************)
(* Reading the history of delivered updates.                               *)
(***************************************************************************)
Max(S) == CHOOSE x \in S : \A y \in S : y <= x
Min(S) == CHOOSE x \in S : \A y \in S : x <= y

Delivered == Len(delivered) > 0
Last == delivered[Len(delivered)]

\* The keys the user store can hold under the updates above.
UserKeys == StatusUserIds

\* Positions of the user updates, and of the status updates, for one id.
UserUpdatesOf(id) ==
    { i \in 1..Len(delivered) :
        /\ delivered[i].kind = "user"
        /\ ToString(Value(delivered[i].userInformation, "id")) = id }

StatusUpdatesOf(id) ==
    { i \in 1..Len(delivered) :
        /\ delivered[i].kind = "userStatus"
        /\ delivered[i].userId = id }

LastUserUpdate(id) == delivered[Max(UserUpdatesOf(id))].userInformation
LastStatusUpdate(id) == delivered[Max(StatusUpdatesOf(id))].userStatusInformation

NonStatus(m) == [x \in (DOMAIN m) \ {STATUS} |-> m[x]]

MyIdRecorded == "my_id" \in DOMAIN wrapper.options
MyId == ToString(Value(wrapper.options, "my_id"))

(***************************************************************************)
(* C1 as stated: for each user id, the stored record's non-status fields   *)
(* are those of the last user update and its status is the payload of the  *)
(* last status update, in any interleaving.  Fails: a user update replaces *)
(* the whole record, status included.                                      *)
(***************************************************************************)
C1_StatusSurvivesUserUpdate ==
    \A id \in UserKeys :
        /\ UserUpdatesOf(id) # {} =>
              NonStatus(getUserInformation(wrapper, id))
                  = NonStatus(LastUserUpdate(id))
        /\ StatusUpdatesOf(id) # {} =>
              Value(getUserInformation(wrapper, id), STATUS)
                  = Map(LastStatusUpdate(id))

\* The last update delivered is a status update for the recorded own id.
OwnStatusDelivered ==
    /\ Delivered
    /\ Last.kind = "userStatus"
    /\ MyIdRecorded
    /\ Last.userId = MyId

(***************************************************************************)
(* C2 as stated: after a status update for the recorded my_id, the own     *)
(* user slot equals the stored record of that id.  Fails when the store    *)
(* got its record before my_id was recorded.                               *)
(***************************************************************************)
C2_OwnSlotMirrorsStore ==
    OwnStatusDelivered =>
        getOwnUserInformation(wrapper) = getUserInformation(wrapper, MyId)

(***************************************************************************)
(* C2 amended: a status update for the recorded my_id sets status to the   *)
(* payload in the own user slot and in the stored record alike, and the    *)
(* two are equal after it whenever they were equal before it.              *)
(***************************************************************************)
C2_OwnStatusRefreshed ==
    [][ OwnStatusDelivered' =>
          /\ Value(getOwnUserInformation(wrapper'), STATUS)
                = Map(Last'.userStatusInformation)
          /\ Value(getUserInformation(wrapper', MyId'), STATUS)
                = Map(Last'.userStatusInformation)
          /\ NonStatus(getOwnUserInformation(wrapper'))
                = NonStatus(getOwnUserInformation(wrapper))
          /\ (getOwnUserInformation(wrapper) = getUserInformation(wrapper, MyId')
                => getOwnUserInformation(wrapper')
                     = getUserInformation(wrapper', MyId')) ]_vars

\* my_id recorded, a user update for it, then a status update for it: the
\* slot and the store both hold the user's fields and the new status.
C2_Witness ==
    /\ OwnStatusDelivered
    /\ UserUpdatesOf(MyId) # {}
    /\ getOwnUserInformation(wrapper) = getUserInformation(wrapper, MyId)
    /\ "first_name" \in DOMAIN getOwnUserInformation(wrapper)

\* The last update delivered is a user update for the recorded own id.
OwnUserDelivered ==
    /\ Delivered
    /\ Last.kind = "user"
    /\ MyIdRecorded
    /\ ToString(Value(Last.userInformation, "id")) = MyId

\* Positions of the my_id option updates.
MyIdUpdates ==
    { i \in 1..Len(delivered) :
        /\ delivered[i].kind = "option"
        /\ delivered[i].optionName = "my_id" }

(***************************************************************************)
(* C3 as stated: once my_id = v has been recorded, every later user update *)
(* whose id is v leaves the own user slot equal to its payload.  Fails     *)
(* once a later my_id update has recorded another value.                   *)
(***************************************************************************)
C3_OnceRecordedAlwaysMirrored ==
    ( /\ Delivered
      /\ Last.kind = "user"
      /\ \E i \in MyIdUpdates :
            ToString(delivered[i].optionValue)
              = ToString(Value(Last.userInformation, "id")) )
    => getOwnUserInformation(wrapper) = Last.userInformation

(***************************************************************************)
(* C3 amended: while my_id = v is the recorded value, a user update whose  *)
(* id is v leaves the own user slot equal to that update's payload.        *)
(***************************************************************************)
C3_OwnUserReflectsUpdate ==
    OwnUserDelivered => getOwnUserInformation(wrapper) = Last.userInformation

\* my_id recorded and two different user updates for it delivered since.
C3_Witness ==
    /\ OwnUserDelivered
    /\ Len(delivered) = 3
    /\ delivered[1].kind = "option"
    /\ delivered[2].kind = "user"
    /\ ToString(Value(delivered[2].userInformation, "id")) = MyId
    /\ delivered[2] # delivered[3]

(***************************************************************************)
(* C4: recording my_id leaves the own user slot exactly as it was, also    *)
(* when the user store already holds a record for that id.                 *)
(***************************************************************************)
C4_NoRetroactiveMirror ==
    [][ (Delivered' /\ Last'.kind = "option" /\ Last'.optionName = "my_id")
          => getOwnUserInformation(wrapper') = getOwnUserInformation(wrapper)
       ]_vars

\* my_id was just recorded, the store holds a record for it, the slot does
\* not.
C4_Witness ==
    /\ Delivered
    /\ Last.kind = "option"
    /\ Last.optionName = "my_id"
    /\ "first_name" \in DOMAIN getUserInformation(wrapper, MyId)
    /\ getOwnUserInformation(wrapper) = EmptyMap

\* How many ownUserIdFound signals were emitted.
OwnUserIdFoundCount ==
    Cardinality({ i \in 1..Len(emitted) : emitted[i].signal = "ownUserIdFound" })

\* The my_id value stored before update i was delivered.
MyIdBefore(i) ==
    LET earlier == { j \in MyIdUpdates : j < i }
    IN  IF earlier = {} THEN Invalid ELSE delivered[Max(earlier)].optionValue

\* The my_id option updates that changed the stored value.
MyIdChanges == { i \in MyIdUpdates : delivered[i].optionValue # MyIdBefore(i) }

(***************************************************************************)
(* C5 as stated: ownUserIdFound is emitted once per change of the stored   *)
(* my_id value.  Fails: a replay of the stored value emits again.          *)
(***************************************************************************)
C5_EmittedOncePerChange == OwnUserIdFoundCount = Cardinality(MyIdChanges)

\* The last update delivered is a chat update; LastChatId is its chat id.
ChatDelivered == Delivered /\ Last.kind = "chat"
LastChatId == ToString(Value(Last.chatInformation, "id"))

\* old with every top-level key present in new taking new's value.
MergedChat(old, new) ==
    [x \in (DOMAIN old) \cup (DOMAIN new) |->
        IF x \in DOMAIN new THEN new[x] ELSE old[x]]

(***************************************************************************)
(* C6 as stated: a chat update merges into the stored record, keys absent  *)
(* from the payload keeping their old value.  Fails: such keys are gone.   *)
(***************************************************************************)
C6_ChatMerged ==
    [][ ChatDelivered' =>
          getChat(wrapper', LastChatId')
            = MergedChat(getChat(wrapper, LastChatId'), Last'.chatInformation)
       ]_vars

(***************************************************************************)
(* C7: replay idempotence.  In every reachable state, each update applied  *)
(* twice in a row leaves the wrapper's maps and slots as applying it once. *)
(***************************************************************************)
C7_ReplayIdempotent ==
    /\ \A o \in OptionUpdates :
          LET once == handleOptionUpdated(wrapper, o[1], o[2]).obj
          IN  handleOptionUpdated(once, o[1], o[2]).obj = once
    /\ \A u \in UserPayloads :
          LET once == handleUserUpdated(wrapper, u).obj
          IN  handleUserUpdated(once, u).obj = once
    /\ \A id \in StatusUserIds, s \in UserStatusPayloads :
          LET once == handleUserStatusUpdated(wrapper, id, s).obj
          IN  handleUserStatusUpdated(once, id, s).obj = once
    /\ \A c \in ChatPayloads :
          LET once == handleNewChatDiscovered(wrapper, c).obj
          IN  handleNewChatDiscovered(once, c).obj = once
    /\ \A p \in UnreadPayloads :
          LET once == handleUnreadMessageCountUpdated(wrapper, p).obj
          IN  handleUnreadMessageCountUpdated(once, p).obj = once
    /\ \A p \in UnreadPayloads :
          LET once == handleUnreadChatCountUpdated(wrapper, p).obj
          IN  handleUnreadChatCountUpdated(once, p).obj = once
    /\ \A g \in GroupIds, p \in GroupPayloads :
          LET once == handleBasicGroupUpdated(wrapper, g, p).obj
          IN  handleBasicGroupUpdated(once, g, p).obj = once
    /\ \A g \in GroupIds, p \in GroupPayloads :
          LET once == handleSuperGroupUpdated(wrapper, g, p).obj
          IN  handleSuperGroupUpdated(once, g, p).obj = once

\* A super group update was delivered twice in a row, and the wrapper is
\* what one delivery leaves.
C7_Witness ==
    /\ Len(delivered) = 2
    /\ delivered[1].kind = "superGroup"
    /\ delivered[2] = delivered[1]
    /\ wrapper = handleSuperGroupUpdated(NewWrapper, delivered[1].groupId,
                                         delivered[1].groupInformation).obj
    /\ Len(wrapper.groupObjects) = 1

\* The last update delivered is an unread count update of either kind for
\* a chat list other than the main one.
OtherListUnreadDelivered ==
    /\ Delivered
    /\ Last.kind \in {"unreadMessageCount", "unreadChatCount"}
    /\ ToString(Value(Last.information, "chat_list_type")) # "chatListMain"

(***************************************************************************)
(* C8: an unread count update whose chat_list_type is not chatListMain, or *)
(* is missing, changes neither unread snapshot.                            *)
(***************************************************************************)
C8_OtherListsIgnored ==
    [][ OtherListUnreadDelivered' =>
          /\ getUnreadMessageInformation(wrapper')
                = getUnreadMessageInformation(wrapper)
          /\ getUnreadChatInformation(wrapper')
                = getUnreadChatInformation(wrapper)
       ]_vars

\* Both snapshots are set, and an update without chat_list_type came last.
C8_Witness ==
    /\ OtherListUnreadDelivered
    /\ "chat_list_type" \notin DOMAIN Last.information
    /\ getUnreadMessageInformation(wrapper) # EmptyMap
    /\ getUnreadChatInformation(wrapper) # EmptyMap

\* Positions of the main-list unread updates of one kind.
MainListUpdates(kind) ==
    { i \in 1..Len(delivered) :
        /\ delivered[i].kind = kind
        /\ ToString(Value(delivered[i].information, "chat_list_type"))
             = "chatListMain" }

LastMainList(kind) ==
    IF MainListUpdates(kind) = {} THEN EmptyMap
    ELSE delivered[Max(MainListUpdates(kind))].information

(***************************************************************************)
(* C9: each unread snapshot is the payload of the most recent main-list    *)
(* update of its own kind, empty if there was none; so an update of one    *)
(* kind never changes the other snapshot.                                  *)
(***************************************************************************)
C9_SnapshotsIndependent ==
    /\ getUnreadMessageInformation(wrapper) = LastMainList("unreadMessageCount")
    /\ getUnreadChatInformation(wrapper) = LastMainList("unreadChatCount")

\* The two snapshots hold different payloads, the chat one set last.
C9_Witness ==
    /\ getUnreadMessageInformation(wrapper) # EmptyMap
    /\ getUnreadChatInformation(wrapper) # EmptyMap
    /\ getUnreadMessageInformation(wrapper) # getUnreadChatInformation(wrapper)
    /\ Last.kind = "unreadChatCount"
    /\ Last.information = getUnreadChatInformation(wrapper)

(***************************************************************************)
(* C10: getGroup(0) is absent in every state; also with a basic and a      *)
(* super group registered under id 0.                                      *)
(***************************************************************************)
C10_GroupZeroAbsent == getGroup(wrapper, 0) = NullPtr

\* Both registries hold a group with id 0.
C10_Witness ==
    /\ 0 \in DOMAIN wrapper.basicGroups
    /\ 0 \in DOMAIN wrapper.superGroups
    /\ getBasicGroup(wrapper, 0) # EmptyMap

(***************************************************************************)
(* C11: for a non-zero id getGroup returns the super group record when one *)
(* is registered under the id, whichever was registered first, otherwise   *)
(* the basic group record when one is registered, otherwise nothing.       *)
(***************************************************************************)
C11_SuperGroupFirst ==
    \A id \in GroupIds \ {0} :
        getGroup(wrapper, id) =
            IF id \in DOMAIN wrapper.superGroups THEN wrapper.superGroups[id]
            ELSE IF id \in DOMAIN wrapper.basicGroups THEN wrapper.basicGroups[id]
            ELSE NullPtr

\* One id registered as a basic group first and as a super group after,
\* with different metadata; getGroup gives the super group's.
C11_Witness ==
    \E id \in GroupIds \ {0} :
        /\ id \in DOMAIN wrapper.basicGroups
        /\ id \in DOMAIN wrapper.superGroups
        /\ wrapper.basicGroups[id] < wrapper.superGroups[id]
        /\ getBasicGroup(wrapper, id) # getSuperGroup(wrapper, id)
        /\ wrapper.groupObjects[getGroup(wrapper, id)].groupInfo
             = getSuperGroup(wrapper, id)

\* The enumeration value each recognised name stands for.
MemberStatusTable ==
    { <<"chatMemberStatusMember", "ChatMemberStatusMember">>,
      <<"chatMemberStatusLeft", "ChatMemberStatusLeft">>,
      <<"chatMemberStatusCreator", "ChatMemberStatusCreator">>,
      <<"chatMemberStatusAdministrator", "ChatMemberStatusAdministrator">>,
      <<"chatMemberStatusRestricted", "ChatMemberStatusRestricted">>,
      <<"chatMemberStatusBanned", "ChatMemberStatusBanned">> }

\* The Group records allocated so far.
Groups == { wrapper.groupObjects[a] : a \in 1..Len(wrapper.groupObjects) }

(***************************************************************************)
(* C12: chatMemberStatus() is Unknown for a group without status, with a   *)
(* status that has no @type or an empty one, and with an @type outside the *)
(* six recognised names; for each of the six it is the matching value.     *)
(***************************************************************************)
C12_MemberStatusMapping ==
    \A g \in Groups :
        LET info == g.groupInfo
            hasType == STATUS \in DOMAIN info /\ _TYPE \in DOMAIN info[STATUS].v
        IN  /\ ~hasType => chatMemberStatus(g) = "ChatMemberStatusUnknown"
            /\ hasType /\ info[STATUS].v[_TYPE].v \notin MemberStatusNames
                 => chatMemberStatus(g) = "ChatMemberStatusUnknown"
            /\ \A row \in MemberStatusTable :
                 hasType /\ info[STATUS].v[_TYPE] = Str(row[1])
                   => chatMemberStatus(g) = row[2]

\* A banned basic group and a super group with an unknown status name.
C12_Witness ==
    /\ chatMemberStatus([groupId |-> 1, groupInfo |-> getBasicGroup(wrapper, 1)])
         = "ChatMemberStatusBanned"
    /\ Value(ToMap(Value(getSuperGroup(wrapper, 1), STATUS)), _TYPE)
         = Str("chatMemberStatusFrobnicated")

\* The last update delivered is a group update; LastGroupInfo is what the
\* getter of its namespace returns for its id.
GroupDelivered == Delivered /\ Last.kind \in {"basicGroup", "superGroup"}
LastGroupInfo ==
    IF Last.kind = "basicGroup" THEN getBasicGroup(wrapper, Last.groupId)
    ELSE getSuperGroup(wrapper, Last.groupId)

(***************************************************************************)
(* C14: a group update replaces the metadata as a whole: after it the      *)
(* record's groupInfo is the update's fields exactly, so a key of an       *)
(* earlier update that the fields lack is gone, and chatMemberStatus() is  *)
(* what the fields alone give.                                             *)
(***************************************************************************)
C14_GroupInfoReplaced ==
    GroupDelivered =>
        /\ LastGroupInfo = Last.groupInformation
        /\ LET group == HashValue(IF Last.kind = "basicGroup"
                                  THEN wrapper.basicGroups
                                  ELSE wrapper.superGroups, Last.groupId)
           IN  /\ group # NullPtr
               /\ wrapper.groupObjects[group].groupId = Last.groupId
               /\ chatMemberStatus(wrapper.groupObjects[group])
                    = chatMemberStatus([groupId |-> Last.groupId,
                                        groupInfo |-> Last.groupInformation])

\* A group that had a member status was updated with fields without one.
C14_Witness ==
    /\ GroupDelivered
    /\ Len(delivered) > 1
    /\ delivered[Len(delivered) - 1].kind = Last.kind
    /\ delivered[Len(delivered) - 1].groupId = Last.groupId
    /\ chatMemberStatus([groupId |-> Last.groupId,
                         groupInfo |-> delivered[Len(delivered) - 1].groupInformation])
         = "ChatMemberStatusMember"
    /\ STATUS \notin DOMAIN Last.groupInformation
    /\ STATUS \notin DOMAIN LastGroupInfo

\* The chat updates delivered so far, the ids they were stored under, and
\* the payload of the last one stored under chatId.
ChatUpdates == { i \in 1..Len(delivered) : delivered[i].kind = "chat" }
ChatIdOf(i) == ToString(Value(delivered[i].chatInformation, "id"))
DiscoveredChatIds == { ChatIdOf(i) : i \in ChatUpdates }
LastPayloadOf(chatId) ==
    delivered[Max({ i \in ChatUpdates : ChatIdOf(i) = chatId })].chatInformation

(***************************************************************************)
(* C20: chats are never removed.  After any sequence of updates the ids    *)
(* of the chat store are all the ids discovered so far, and getChat(id)    *)
(* of a discovered id is the last payload discovered for it: it is the     *)
(* empty map, the answer for an unknown id, only when that payload was     *)
(* empty.                                                                  *)
(***************************************************************************)
C20_ChatsNeverRemoved ==
    /\ DOMAIN wrapper.chats = DiscoveredChatIds
    /\ \A chatId \in DiscoveredChatIds :
          /\ getChat(wrapper, chatId) = LastPayloadOf(chatId)
          /\ getChat(wrapper, chatId) = EmptyMap
                => LastPayloadOf(chatId) = EmptyMap
    /\ \A chatId \in {"", "100", "200"} \ DiscoveredChatIds :
          getChat(wrapper, chatId) = EmptyMap

\* Two chats were discovered one after the other; the first is still held
\* after the update that followed it.
C20_Witness ==
    /\ Len(delivered) > 1
    /\ delivered[1].kind = "chat"
    /\ delivered[2].kind = "chat"
    /\ ChatIdOf(1) = "100"
    /\ ChatIdOf(2) = "200"
    /\ getChat(wrapper, "100") # EmptyMap
    /\ getChat(wrapper, "200") # EmptyMap

\* The registries of Group pointers, and the registry a group update of
\* the given kind writes.
Registries == {"basicGroups", "superGroups"}
RegistryOf(kind) == IF kind = "basicGroup" THEN "basicGroups" ELSE "superGroups"
DestructorDeleting == destructor \in {"deleteBasic", "deleteSuper", "destroyClient", "done"}

(***************************************************************************)
(* C13: group identity is stable.  One Group record per namespace and id:  *)
(* the registries hold distinct records, each carrying its key, and no     *)
(* other record is ever allocated.  The first update of an id allocates    *)
(* and registers the record; a later one leaves every pointer as it was    *)
(* and the record a holder already points to shows the new metadata.  No   *)
(* record is freed before the destructor's delete statements.              *)
(***************************************************************************)
C13_GroupIdentityStable ==
    [][ /\ \A reg \in Registries : \A id \in DOMAIN wrapper[reg] :
              /\ id \in DOMAIN wrapper'[reg]
              /\ wrapper'[reg][id] = wrapper[reg][id]
              /\ wrapper'.groupObjects[wrapper[reg][id]].groupId = id
        /\ HashValues(wrapper'.basicGroups) \cap HashValues(wrapper'.superGroups) = {}
        /\ Len(wrapper'.groupObjects)
             = Cardinality(DOMAIN wrapper'.basicGroups)
               + Cardinality(DOMAIN wrapper'.superGroups)
        /\ (delivered' # delivered /\ Last'.kind \in {"basicGroup", "superGroup"}) =>
              LET reg == RegistryOf(Last'.kind)
                  held == HashValue(wrapper[reg], Last'.groupId)
              IN  IF held = NullPtr
                  THEN /\ Len(wrapper'.groupObjects) = Len(wrapper.groupObjects) + 1
                       /\ wrapper'[reg][Last'.groupId] = Len(wrapper'.groupObjects)
                  ELSE /\ Len(wrapper'.groupObjects) = Len(wrapper.groupObjects)
                       /\ wrapper'.groupObjects[held].groupInfo = Last'.groupInformation
        /\ freed' # {} => DestructorDeleting'
        /\ freed \subseteq freed'
      ]_vars

\* A group was updated twice with different metadata: one record, holding
\* the second metadata, not freed.
C13_Witness ==
    /\ Len(delivered) = 2
    /\ delivered[1].kind = delivered[2].kind
    /\ delivered[1].groupId = delivered[2].groupId
    /\ delivered[1].groupInformation # delivered[2].groupInformation
    /\ Len(wrapper.groupObjects) = 1
    /\ wrapper.groupObjects[1].groupInfo = delivered[2].groupInformation
    /\ freed = {}

(***************************************************************************)
(* C18: shutdown is a drain.  Whenever a group record has been freed or    *)
(* the destructor has reached a delete statement or the backend client is  *)
(* destroyed, the receiver's active flag is cleared and the receiver is    *)
(* not running.                                                            *)
(***************************************************************************)
C18_ShutdownDrains ==
    (freed # {} \/ DestructorDeleting \/ client = "destroyed")
        => (~receiver.active /\ ~isRunning(receiver))

\* The destructor ran to its end after an update had been handled: records
\* freed, client destroyed, receiver stopped.
C18_Witness ==
    /\ client = "destroyed"
    /\ freed # {}
    /\ ~isRunning(receiver)
    /\ Delivered

(***************************************************************************)
(* C19: shutdown terminates.  With the main thread and the receiver thread *)
(* both scheduled, a destructor that has cleared the active flag goes on   *)
(* to destroy the backend client.                                          *)
(***************************************************************************)
C19_ShutdownTerminates ==
    (destructor # "none") ~> (client = "destroyed")

\* The destructor is waiting in processEvents for a receiver still running.
C19_Witness ==
    /\ destructor = "events"
    /\ ~receiver.active
    /\ isRunning(receiver)
    /\ client = "created"

\* The positions in emitted of the signals of the n-th update delivered.
SignalsOf(n) == { i \in 1..Len(emitted) : emitted[i].update = n }

\* The updates for which the code emits two signals, and none.
IsMyIdOption(u) == u.kind = "option" /\ u.optionName = "my_id"
IsOtherListUnread(u) ==
    /\ u.kind \in {"unreadMessageCount", "unreadChatCount"}
    /\ ToString(Value(u.information, "chat_list_type")) # "chatListMain"

(***************************************************************************)
(* C15 as stated: every update delivered to a slot produces exactly one    *)
(* signal emission, whatever its kind and payload.  Fails: a my_id option  *)
(* update produces two, an unread count of another chat list none.         *)
(***************************************************************************)
C15_ExactlyOneEmission ==
    \A n \in 1..Len(delivered) : Cardinality(SignalsOf(n)) = 1

(***************************************************************************)
(* C15 amended: every update delivered to a slot produces exactly one      *)
(* signal emission, except that an option update named my_id produces two  *)
(* (optionUpdated, then ownUserIdFound) and an unread message or chat      *)
(* count update whose chat_list_type is not chatListMain produces none.    *)
(* Nothing is batched: emitted holds just these signals, update by update. *)
(***************************************************************************)
C15_OneEmissionButMyIdAndOtherLists ==
    /\ \A n \in 1..Len(delivered) :
          Cardinality(SignalsOf(n)) =
              IF IsMyIdOption(delivered[n]) THEN 2
              ELSE IF IsOtherListUnread(delivered[n]) THEN 0
              ELSE 1
    /\ \A i \in 1..Len(emitted) : emitted[i].update \in 1..Len(delivered)
    /\ \A n \in 1..Len(delivered) :
          IsMyIdOption(delivered[n]) =>
              \E i \in SignalsOf(n) :
                  /\ i + 1 \in SignalsOf(n)
                  /\ emitted[i].signal = "optionUpdated"
                  /\ emitted[i + 1].signal = "ownUserIdFound"

\* A my_id option with its two signals, then an update with its one.
C15_Witness ==
    /\ Len(delivered) = 2
    /\ IsMyIdOption(delivered[1])
    /\ delivered[2].kind = "chatOrder"
    /\ Len(emitted) = 3
    /\ emitted[3].signal = "chatOrderUpdated"

\* What a slot connected to one of the wrapper's signals can read.
Getters(w) ==
    [ version |-> getVersion(w),
      authorizationState |-> getAuthorizationState(w),
      connectionState |-> getConnectionState(w),
      options |-> w.options,
      ownUser |-> getOwnUserInformation(w),
      users |-> [id \in UserKeys |-> getUserInformation(w, id)],
      chats |-> [id \in {"", "100", "200"} |-> getChat(w, id)],
      unreadMessages |-> getUnreadMessageInformation(w),
      unreadChats |-> getUnreadChatInformation(w),
      basicGroups |-> [id \in GroupIds |-> getBasicGroup(w, id)],
      superGroups |-> [id \in GroupIds |-> getSuperGroup(w, id)],
      groups |-> [id \in GroupIds |->
                    IF getGroup(w, id) = NullPtr THEN "none"
                    ELSE chatMemberStatus(w.groupObjects[getGroup(w, id)])] ]

(***************************************************************************)
(* C16: an update is fully applied before its emission.  Whenever a slot   *)
(* runs, at each signal it emits the getters return what they return once  *)
(* the slot is done, and for the entity of the update that is the update's *)
(* value.                                                                  *)
(***************************************************************************)
C16_AppliedBeforeEmission ==
    [][ delivered' # delivered =>
          LET u == Last'
              signals == Handled(wrapper, u).signals
          IN  /\ \A i \in 1..Len(signals) :
                    Getters(signals[i].at) = Getters(wrapper')
              /\ u.kind = "version" => getVersion(wrapper') = u.version
              /\ u.kind = "option" =>
                    Value(wrapper'.options, u.optionName) = u.optionValue
              /\ u.kind = "chat" =>
                    getChat(wrapper', ToString(Value(u.chatInformation, "id")))
                        = u.chatInformation
              /\ u.kind = "user" =>
                    getUserInformation(wrapper', ToString(Value(u.userInformation, "id")))
                        = u.userInformation
              /\ u.kind = "basicGroup" =>
                    getBasicGroup(wrapper', u.groupId) = u.groupInformation
              /\ u.kind = "superGroup" =>
                    getSuperGroup(wrapper', u.groupId) = u.groupInformation
              /\ (u.kind = "connectionState"
                  /\ ConnectionStateOf(u.connectionState) # "none of them") =>
                    getConnectionState(wrapper') = ConnectionStateOf(u.connectionState)
              /\ (u.kind = "authorizationState"
                  /\ AuthorizationStateOf(u.authorizationState) # "none of them") =>
                    getAuthorizationState(wrapper')
                        = AuthorizationStateOf(u.authorizationState)
      ]_vars

\* A connection state update changed the state and its signal was emitted.
C16_Witness ==
    /\ Len(delivered) = 2
    /\ delivered[1].kind = "connectionState"
    /\ delivered[2].kind = "connectionState"
    /\ delivered[1].connectionState = "connectionStateFrobnicated"
    /\ delivered[2].connectionState = "connectionStateReady"
    /\ getConnectionState(wrapper) = "ConnectionReady"
    /\ emitted[2].signal = "connectionStateChanged"
    /\ emitted[2].args = <<"ConnectionReady">>
    /\ emitted[1].args # emitted[2].args

(***************************************************************************)
(* C17: emissions preserve arrival order.  Each signal emitted comes from  *)
(* the slot run for the update that arrived with its number, the slots run *)
(* in the order of arrival, and of two updates that arrived one after the  *)
(* other every signal of the first is emitted before every signal of the   *)
(* second, whenever the receiver signals the second: before, between or    *)
(* after the emits of the first.                                           *)
(***************************************************************************)
C17_EmissionsInArrivalOrder ==
    /\ \A n \in 1..Len(delivered) : delivered[n] = eventLoop.arrived[n]
    /\ \A i \in 1..Len(emitted) : emitted[i].update \in 1..Len(delivered)
    /\ \A i, j \in 1..Len(emitted) :
          emitted[i].update < emitted[j].update => i < j

\* A my_id option and then a version arrived; the three signals of their
\* slots are emitted, the two of the option first.
C17_Witness ==
    /\ Len(eventLoop.arrived) = 2
    /\ IsMyIdOption(eventLoop.arrived[1])
    /\ eventLoop.arrived[2].kind = "version"
    /\ eventLoop.posted = <<>>
    /\ eventLoop.emitting = <<>>
    /\ Len(emitted) = 3
    /\ emitted[1].signal = "optionUpdated"
    /\ emitted[2].signal = "ownUserIdFound"
    /\ emitted[3].signal = "versionDetected"
    /\ emitted[1].update = 1
    /\ emitted[2].update = 1
    /\ emitted[3].update = 2

(***************************************************************************)
(* C23 as stated: while no my_id option has been recorded, the own-user    *)
(* slot stays empty under every sequence of user and user-status updates,  *)
(* those with a missing or empty user id included.  Fails: the id of such  *)
(* an update reads as "", and so does the my_id that is not there.         *)
(***************************************************************************)
C23_OwnUserEmptyBeforeMyId ==
    ~MyIdRecorded => getOwnUserInformation(wrapper) = EmptyMap

\* The record a status update leaves for a user not stored before.
StatusOnlyRecord(userStatusInformation) ==
    Insert(EmptyMap, "status", Map(userStatusInformation))

(***************************************************************************)
(* C28: a user-status update for an id with no stored record is not        *)
(* dropped.  It stores a record whose only key is status, holding the      *)
(* update's payload, and emits userUpdated once with that id and record.   *)
(* A user update for an id replaces whatever record the id had, such a     *)
(* status-only record included.                                            *)
(***************************************************************************)
C28_StatusForUnknownUserCreatesRecord ==
    [][ delivered' # delivered =>
          /\ (Last'.kind = "userStatus" /\ Last'.userId \notin DOMAIN wrapper.allUsers) =>
                /\ Last'.userId \in DOMAIN wrapper'.allUsers
                /\ getUserInformation(wrapper', Last'.userId)
                     = StatusOnlyRecord(Last'.userStatusInformation)
                /\ DOMAIN getUserInformation(wrapper', Last'.userId) = {"status"}
                /\ Len(emitted') = Len(emitted) + 1
                /\ emitted'[Len(emitted')].signal = "userUpdated"
                /\ emitted'[Len(emitted')].args
                     = <<Last'.userId, StatusOnlyRecord(Last'.userStatusInformation)>>
          /\ Last'.kind = "user" =>
                getUserInformation(wrapper', ToString(Value(Last'.userInformation, "id")))
                    = Last'.userInformation
      ]_vars

\* A status update created the record of user 2, and a user update without
\* a status then replaced it.
C28_Witness ==
    /\ Len(delivered) = 2
    /\ delivered[1].kind = "userStatus"
    /\ delivered[1].userId = "2"
    /\ delivered[2].kind = "user"
    /\ ToString(Value(delivered[2].userInformation, "id")) = "2"
    /\ emitted[1].args = <<"2", StatusOnlyRecord(delivered[1].userStatusInformation)>>
    /\ "status" \notin DOMAIN getUserInformation(wrapper, "2")
    /\ getUserInformation(wrapper, "2") = delivered[2].userInformation

\* The registry a group update of the given kind does not write.
OtherRegistryOf(kind) == IF kind = "basicGroup" THEN "superGroups" ELSE "basicGroups"
GroupGetter(w, reg, id) ==
    IF reg = "basicGroups" THEN getBasicGroup(w, id) ELSE getSuperGroup(w, id)

(***************************************************************************)
(* C27: the two group namespaces are isolated.  A basic-group update       *)
(* leaves the super-group registry, its records and what getSuperGroup     *)
(* returns for every id as they were, and a super-group update does the    *)
(* same for the basic groups; in its own namespace the update changes the  *)
(* record of its own id only, to the update's metadata.                    *)
(***************************************************************************)
C27_NamespacesIsolated ==
    [][ (delivered' # delivered /\ Last'.kind \in {"basicGroup", "superGroup"}) =>
          LET own == RegistryOf(Last'.kind)
              other == OtherRegistryOf(Last'.kind)
          IN  /\ wrapper'[other] = wrapper[other]
              /\ \A id \in GroupIds :
                    GroupGetter(wrapper', other, id) = GroupGetter(wrapper, other, id)
              /\ \A p \in HashValues(wrapper[other]) :
                    wrapper'.groupObjects[p] = wrapper.groupObjects[p]
              /\ \A id \in GroupIds \ {Last'.groupId} :
                    /\ GroupGetter(wrapper', own, id) = GroupGetter(wrapper, own, id)
                    /\ HashValue(wrapper'[own], id) = HashValue(wrapper[own], id)
              /\ GroupGetter(wrapper', own, Last'.groupId) = Last'.groupInformation
      ]_vars

\* Group 1 exists in both namespaces; the basic one was updated last and
\* the super one still has the metadata of its own update.
C27_Witness ==
    /\ Len(delivered) = 3
    /\ delivered[1].kind = "superGroup"
    /\ delivered[2].kind = "basicGroup"
    /\ delivered[3].kind = "basicGroup"
    /\ \A i \in 1..3 : delivered[i].groupId = 1
    /\ delivered[3].groupInformation # delivered[2].groupInformation
    /\ delivered[3].groupInformation # delivered[1].groupInformation
    /\ getSuperGroup(wrapper, 1) = delivered[1].groupInformation
    /\ getBasicGroup(wrapper, 1) = delivered[3].groupInformation

(***************************************************************************)
(* The authorization and connection state slots, with every state name     *)
(* they know and one they do not.                                          *)
(***************************************************************************)
AuthorizationStateNames ==
    { "authorizationStateClosed", "authorizationStateClosing",
      "authorizationStateLoggingOut", "authorizationStateReady",
      "authorizationStateWaitCode", "authorizationStateWaitEncryptionKey",
      "authorizationStateWaitOtherDeviceConfirmation",
      "authorizationStateWaitPassword", "authorizationStateWaitPhoneNumber",
      "authorizationStateWaitRegistration",
      "authorizationStateWaitTdlibParameters", "authorizationStateFrobnicated" }

AuthorizationStateChanged(max) ==
    /\ Len(delivered) < max
    /\ \E a \in AuthorizationStateNames : \E h \in HardwareSettings(a) :
          Deliver([kind |-> "authorizationState", authorizationState |-> a,
                   hardwareSettings |-> h],
                  handleAuthorizationStateChanged(wrapper, a, h))

ConnectionStateChanged(max) ==
    /\ Len(delivered) < max
    /\ \E c \in { "connectionStateConnecting", "connectionStateConnectingToProxy",
                   "connectionStateReady", "connectionStateUpdating",
                   "connectionStateWaitingForNetwork",
                   "connectionStateFrobnicated" } :
          Deliver([kind |-> "connectionState", connectionState |-> c],
                  handleConnectionStateChanged(wrapper, c))

\* Updates delivered to the specification of the two state slots.
MaxStateUpdates == 2

NextSessionState ==
    \/ AuthorizationStateChanged(MaxStateUpdates)
    \/ ConnectionStateChanged(MaxStateUpdates)

SpecSessionState == InitSignals /\ [][NextSessionState]_vars

\* The state names of the backend and the enumeration value of each.
AuthorizationStateTable ==
    { <<"authorizationStateClosed", "Closed">>,
      <<"authorizationStateClosing", "Closing">>,
      <<"authorizationStateLoggingOut", "LoggingOut">>,
      <<"authorizationStateReady", "AuthorizationReady">>,
      <<"authorizationStateWaitCode", "WaitCode">>,
      <<"authorizationStateWaitEncryptionKey", "WaitEncryptionKey">>,
      <<"authorizationStateWaitOtherDeviceConfirmation", "WaitOtherDeviceConfirmation">>,
      <<"authorizationStateWaitPassword", "WaitPassword">>,
      <<"authorizationStateWaitPhoneNumber", "WaitPhoneNumber">>,
      <<"authorizationStateWaitRegistration", "WaitRegistration">>,
      <<"authorizationStateWaitTdlibParameters", "WaitTdlibParameters">> }

ConnectionStateTable ==
    { <<"connectionStateConnecting", "Connecting">>,
      <<"connectionStateConnectingToProxy", "ConnectingToProxy">>,
      <<"connectionStateReady", "ConnectionReady">>,
      <<"connectionStateUpdating", "Updating">>,
      <<"connectionStateWaitingForNetwork", "WaitingForNetwork">> }

\* What a state slot must have done with the state name it was given:
\* stored is the state before, stored2 the state after, table the names
\* the slot knows, signals what the slot emitted, with the state at each
\* emission read by getter.
StateSlotCorrect(name, table, stored, stored2, signal, signals, getter(_)) ==
    /\ Len(signals) = 1
    /\ signals[1].signal = signal
    /\ getter(signals[1].at) = stored2
    /\ signals[1].args = <<stored2>>
    /\ \A pair \in table : pair[1] = name => stored2 = pair[2]
    /\ (\A pair \in table : pair[1] # name) => stored2 = stored

(***************************************************************************)
(* C24: a state name the authorization or connection slot does not know    *)
(* leaves the stored state as it was, and the state-changed signal is      *)
(* still emitted once, carrying the state stored before.  A name the slot  *)
(* knows sets the stored state to the matching enumeration value before    *)
(* the emission, which carries it.                                         *)
(***************************************************************************)
C24_UnknownStateKeepsStored ==
    [][ delivered' # delivered =>
          LET u == Last'
              signals == Handled(wrapper, u).signals
          IN  /\ u.kind = "authorizationState" =>
                    /\ StateSlotCorrect(u.authorizationState, AuthorizationStateTable,
                                            getAuthorizationState(wrapper),
                                            getAuthorizationState(wrapper'),
                                            "authorizationStateChanged", signals,
                                            getAuthorizationState)
                    /\ getConnectionState(wrapper') = getConnectionState(wrapper)
                    /\ Len(emitted') = Len(emitted) + 1
              /\ u.kind = "connectionState" =>
                    /\ StateSlotCorrect(u.connectionState, ConnectionStateTable,
                                            getConnectionState(wrapper),
                                            getConnectionState(wrapper'),
                                            "connectionStateChanged", signals,
                                            getConnectionState)
                    /\ getAuthorizationState(wrapper') = getAuthorizationState(wrapper)
                    /\ Len(emitted') = Len(emitted) + 1
      ]_vars

\* A known connection state was stored, then an unknown name arrived: the
\* state is kept and was emitted again.
C24_Witness ==
    /\ Len(delivered) = 2
    /\ delivered[1].kind = "connectionState"
    /\ delivered[1].connectionState = "connectionStateUpdating"
    /\ delivered[2].kind = "connectionState"
    /\ delivered[2].connectionState = "connectionStateFrobnicated"
    /\ getConnectionState(wrapper) = "Updating"
    /\ Len(emitted) = 2
    /\ emitted[2].signal = "connectionStateChanged"
    /\ emitted[2].args = <<"Updating">>

\* The requests the last slot invocation sent, and their @type.
RequestTypes(requests) ==
    [i \in 1..Len(requests) |-> ToString(Value(requests[i].requestObject, _TYPE))]

(***************************************************************************)
(* C25: the authorization slot sends a request for exactly two states:     *)
(* one setTdlibParameters on authorizationStateWaitTdlibParameters and one *)
(* checkDatabaseEncryptionKey on authorizationStateWaitEncryptionKey.  The *)
(* request is sent while the state stored is still the one before, and it  *)
(* has been sent when authorizationStateChanged is emitted.  Every other   *)
(* state name sends no request.                                            *)
(***************************************************************************)
C25_HandshakeRequests ==
    [][ (delivered' # delivered /\ Last'.kind = "authorizationState") =>
          LET name == Last'.authorizationState
              sent == SubSeq(wrapper'.requests, Len(wrapper.requests) + 1,
                             Len(wrapper'.requests))
              signals == Handled(wrapper, Last').signals
          IN  /\ SubSeq(wrapper'.requests, 1, Len(wrapper.requests)) = wrapper.requests
              /\ RequestTypes(sent) =
                    IF name = "authorizationStateWaitTdlibParameters"
                    THEN <<"setTdlibParameters">>
                    ELSE IF name = "authorizationStateWaitEncryptionKey"
                    THEN <<"checkDatabaseEncryptionKey">>
                    ELSE <<>>
              /\ \A i \in 1..Len(sent) :
                    sent[i].authorizationState = getAuthorizationState(wrapper)
              /\ \A i \in 1..Len(signals) :
                    signals[i].at.requests = wrapper'.requests
      ]_vars

\* The two handshake steps in turn: the parameters were sent in the state
\* left by the constructor, the key in the state WaitTdlibParameters.
C25_Witness ==
    /\ Len(delivered) = 2
    /\ delivered[1].kind = "authorizationState"
    /\ delivered[2].kind = "authorizationState"
    /\ delivered[1].authorizationState = "authorizationStateWaitTdlibParameters"
    /\ delivered[2].authorizationState = "authorizationStateWaitEncryptionKey"
    /\ RequestTypes(wrapper.requests) =
          <<"setLogVerbosityLevel", "setOption",
            "setTdlibParameters", "checkDatabaseEncryptionKey">>
    /\ wrapper.requests[3].authorizationState = NoEnumerator
    /\ ToString(Value(ToMap(Value(wrapper.requests[3].requestObject, "parameters")),
                      "device_model")) = "Xperia 10"
    /\ wrapper.requests[4].authorizationState = "WaitTdlibParameters"
    /\ getAuthorizationState(wrapper) = "WaitEncryptionKey"
    /\ Len(emitted) = 2

\* The kinds of update whose slot only re-emits.
PassThroughKinds ==
    { "file", "chatLastMessage", "chatOrder", "chatReadInbox", "chatReadOutbox",
      "chatOnlineMemberCount", "messagesReceived", "newMessage",
      "messageInformation", "messageSendSucceeded", "activeNotifications",
      "notificationGroup", "notification", "chatNotificationSettings",
      "messageContent", "messagesDeleted" }

(***************************************************************************)
(* C26: the pass-through slots leave every stored map and slot as it was:  *)
(* chats, users, own user, options, unread snapshots, both group           *)
(* registries and their records, the version, the authorization and        *)
(* connection state; no request is sent.  So every getter, getChat         *)
(* included, returns after such an update what it returned before.         *)
(***************************************************************************)
C26_PassThroughKeepsState ==
    [][ (delivered' # delivered /\ Last'.kind \in PassThroughKinds) =>
          /\ wrapper' = wrapper
          /\ Getters(wrapper') = Getters(wrapper)
          /\ \A id \in {"", "100", "200"} : getChat(wrapper', id) = getChat(wrapper, id)
      ]_vars

\* Chat 100 was discovered and its last message then updated: the chat is
\* as discovered.
C26_Witness ==
    /\ Len(delivered) = 2
    /\ delivered[1].kind = "chat"
    /\ delivered[2].kind = "chatLastMessage"
    /\ delivered[2].chatId = ToString(Value(delivered[1].chatInformation, "id"))
    /\ getChat(wrapper, delivered[2].chatId) = delivered[1].chatInformation
    /\ getChat(wrapper, delivered[2].chatId) # EmptyMap
    /\ Len(emitted) = 2

(***************************************************************************)
(* getMapThumbnailFile, a method the user interface calls.                 *)
(***************************************************************************)
stdMax(a, b) == IF a < b THEN b ELSE a
stdMin(a, b) == IF b < a THEN b ELSE a

getMapThumbnailFile_noUpperBound(w, chatId, latitude, longitude, width, height) ==
    LET location == Insert(Insert(EmptyMap, "latitude", Num(latitude)),
                           "longitude", Num(longitude))
        boundsWidth == stdMax(width, 16)
        boundsHeight == stdMax(height, 16)
        requestObject ==
            [x \in {_TYPE, "location", "zoom", "width", "height", "scale", "chat_id"} |->
                CASE x = _TYPE -> Str("getMapThumbnailFile")
                  [] x = "location" -> Map(location)
                  [] x = "zoom" -> Num(17)
                  [] x = "width" -> Num(boundsWidth)
                  [] x = "height" -> Num(boundsHeight)
                  [] x = "scale" -> Num(1)
                  [] x = "chat_id" -> Str(chatId)]
    IN  sendRequest(w, requestObject)

\* latitude and longitude are whole degrees here.
getMapThumbnailFile(w, chatId, latitude, longitude, width, height) ==
    LET location == Insert(Insert(EmptyMap, "latitude", Num(latitude)),
                           "longitude", Num(longitude))
        boundsWidth == stdMin(stdMax(width, 16), 1024)
        boundsHeight == stdMin(stdMax(height, 16), 1024)
        requestObject ==
            [x \in {_TYPE, "location", "zoom", "width", "height", "scale", "chat_id"} |->
                CASE x = _TYPE -> Str("getMapThumbnailFile")
                  [] x = "location" -> Map(location)
                  [] x = "zoom" -> Num(17)
                  [] x = "width" -> Num(boundsWidth)
                  [] x = "height" -> Num(boundsHeight)
                  [] x = "scale" -> Num(1)
                  [] x = "chat_id" -> Str(chatId)]
    IN  sendRequest(w, requestObject)

\* The int arguments tried: the ends of the int range, and the values at
\* and next to both bounds.
Dimensions ==
    { -2147483647 - 1, 15, 16, 640, 1024, 1025, 2147483647 }

\* Calls of the public functions made to the wrapper.
MaxRequests == 1

\* The calls of the public functions that are tried, with their arguments.
\* For copyFileToDownloads the file is there or not, and the copy succeeds
\* or not; for the send functions the message replied to is none ("0") or
\* message 7.
PublicCalls ==
    { [kind |-> "setLogVerbosityLevel"],
      [kind |-> "setOptionInteger", optionName |-> "notification_group_count_max",
       optionValue |-> 5],
      [kind |-> "setAuthenticationPhoneNumber", phoneNumber |-> "+4930123456"],
      [kind |-> "setAuthenticationCode", authenticationCode |-> "12345"],
      [kind |-> "setAuthenticationPassword", authenticationPassword |-> "secret"],
      [kind |-> "getChats"],
      [kind |-> "downloadFile", fileId |-> "7"],
      [kind |-> "openChat", chatId |-> "100"],
      [kind |-> "closeChat", chatId |-> "100"],
      [kind |-> "viewMessage", chatId |-> "100", messageId |-> "7"],
      [kind |-> "getMessage", chatId |-> "100", messageId |-> "7"],
      [kind |-> "setChatNotificationSettings", chatId |-> "100",
       notificationSettings |-> Insert(EmptyMap, "mute_for", Num(0))],
      [kind |-> "editMessageText", chatId |-> "100", messageId |-> "7",
       message |-> "hi"],
      [kind |-> "deleteMessages", chatId |-> "100", messageIds |-> <<Num(7)>>] }
    \cup { [kind |-> "getChatHistory", chatId |-> "100", fromMessageId |-> 7,
            offset |-> 0, limit |-> 50, onlyLocal |-> onlyLocal] :
              onlyLocal \in BOOLEAN }
    \cup { [kind |-> "sendTextMessage", chatId |-> "100", message |-> "hi",
            replyToMessageId |-> replyToMessageId] :
              replyToMessageId \in {"0", "7"} }
    \cup { [kind |-> k[1], chatId |-> "100", filePath |-> k[2], message |-> "hi",
            replyToMessageId |-> replyToMessageId] :
              k \in { <<"sendPhotoMessage", "/home/nemo/a.jpg">>,
                      <<"sendVideoMessage", "/home/nemo/a.mp4">>,
                      <<"sendDocumentMessage", "/home/nemo/a.pdf">> },
              replyToMessageId \in {"0", "7"} }
    \cup { [kind |-> "copyFileToDownloads", filePath |-> "/home/nemo/a.pdf",
            exists |-> x[1], copied |-> x[2]] :
              x \in { <<FALSE, FALSE>>, <<TRUE, FALSE>>, <<TRUE, TRUE>> } }

\* The public function called, with the call's arguments: the wrapper
\* after it and the signals it emitted.
Called(w, call) ==
    CASE call.kind = "setLogVerbosityLevel" -> Result(setLogVerbosityLevel(w), <<>>)
      [] call.kind = "setOptionInteger"
            -> Result(setOptionInteger(w, call.optionName, call.optionValue), <<>>)
      [] call.kind = "setAuthenticationPhoneNumber"
            -> Result(setAuthenticationPhoneNumber(w, call.phoneNumber), <<>>)
      [] call.kind = "setAuthenticationCode"
            -> Result(setAuthenticationCode(w, call.authenticationCode), <<>>)
      [] call.kind = "setAuthenticationPassword"
            -> Result(setAuthenticationPassword(w, call.authenticationPassword), <<>>)
      [] call.kind = "getChats" -> Result(getChats(w), <<>>)
      [] call.kind = "downloadFile" -> Result(downloadFile(w, call.fileId), <<>>)
      [] call.kind = "openChat" -> Result(openChat(w, call.chatId), <<>>)
      [] call.kind = "closeChat" -> Result(closeChat(w, call.chatId), <<>>)
      [] call.kind = "getChatHistory"
            -> Result(getChatHistory(w, call.chatId, call.fromMessageId, call.offset,
                                     call.limit, call.onlyLocal), <<>>)
      [] call.kind = "viewMessage"
            -> Result(viewMessage(w, call.chatId, call.messageId), <<>>)
      [] call.kind = "sendTextMessage"
            -> Result(sendTextMessage(w, call.chatId, call.message,
                                      call.replyToMessageId), <<>>)
      [] call.kind = "sendPhotoMessage"
            -> Result(sendPhotoMessage(w, call.chatId, call.filePath, call.message,
                                       call.replyToMessageId), <<>>)
      [] call.kind = "sendVideoMessage"
            -> Result(sendVideoMessage(w, call.chatId, call.filePath, call.message,
                                       call.replyToMessageId), <<>>)
      [] call.kind = "sendDocumentMessage"
            -> Result(sendDocumentMessage(w, call.chatId, call.filePath, call.message,
                                          call.replyToMessageId), <<>>)
      [] call.kind = "getMessage"
            -> Result(getMessage(w, call.chatId, call.messageId), <<>>)
      [] call.kind = "setChatNotificationSettings"
            -> Result(setChatNotificationSettings(w, call.chatId,
                                                  call.notificationSettings), <<>>)
      [] call.kind = "editMessageText"
            -> Result(editMessageText(w, call.chatId, call.messageId, call.message), <<>>)
      [] call.kind = "deleteMessages"
            -> Result(deleteMessages(w, call.chatId, call.messageIds), <<>>)
      [] call.kind = "copyFileToDownloads"
            -> copyFileToDownloads(w, call.filePath, call.exists, call.copied)

\* A public function is called; the call is kept in delivered with its
\* arguments.
PublicCall(kind, max) ==
    /\ Len(delivered) < max
    /\ \E call \in PublicCalls :
          /\ call.kind = kind
          /\ Deliver(call, Called(wrapper, call))

GetMapThumbnailFile(max) ==
    /\ Len(delivered) < max
    /\ \E width \in Dimensions, height \in Dimensions :
          Deliver([kind |-> "getMapThumbnailFile", chatId |-> "100",
                   latitude |-> 52, longitude |-> 13,
                   width |-> width, height |-> height],
                  Result(getMapThumbnailFile(wrapper, "100", 52, 13, width, height), <<>>))

\* The public functions that send a request or emit a signal.
NextRequests ==
    \/ GetMapThumbnailFile(MaxRequests)
    \/ PublicCall("setLogVerbosityLevel", MaxRequests)
    \/ PublicCall("setOptionInteger", MaxRequests)
    \/ PublicCall("setAuthenticationPhoneNumber", MaxRequests)
    \/ PublicCall("setAuthenticationCode", MaxRequests)
    \/ PublicCall("setAuthenticationPassword", MaxRequests)
    \/ PublicCall("getChats", MaxRequests)
    \/ PublicCall("downloadFile", MaxRequests)
    \/ PublicCall("openChat", MaxRequests)
    \/ PublicCall("closeChat", MaxRequests)
    \/ PublicCall("getChatHistory", MaxRequests)
    \/ PublicCall("viewMessage", MaxRequests)
    \/ PublicCall("sendTextMessage", MaxRequests)
    \/ PublicCall("sendPhotoMessage", MaxRequests)
    \/ PublicCall("sendVideoMessage", MaxRequests)
    \/ PublicCall("sendDocumentMessage", MaxRequests)
    \/ PublicCall("getMessage", MaxRequests)
    \/ PublicCall("setChatNotificationSettings", MaxRequests)
    \/ PublicCall("editMessageText", MaxRequests)
    \/ PublicCall("deleteMessages", MaxRequests)
    \/ PublicCall("copyFileToDownloads", MaxRequests)

SpecRequests == InitSignals /\ [][NextRequests]_vars

\* The dimension the request must carry for a dimension asked for.
Clamped(n) == IF n < 16 THEN 16 ELSE IF n > 1024 THEN 1024 ELSE n

(***************************************************************************)
(* C29: getMapThumbnailFile clamps the dimensions asked for.  A call sends *)
(* one request; its width and height lie in 16..1024: they are the input   *)
(* when it is in that range, 16 when it is below, 1024 when it is above.   *)
(* No getMapThumbnailFile request ever sent has a dimension outside.       *)
(***************************************************************************)
C29_DimensionsClamped ==
    [][ (delivered' # delivered /\ Last'.kind = "getMapThumbnailFile") =>
          LET sent == wrapper'.requests
              request == sent[Len(sent)].requestObject
          IN  /\ Len(sent) = Len(wrapper.requests) + 1
              /\ SubSeq(sent, 1, Len(wrapper.requests)) = wrapper.requests
              /\ ToString(Value(request, _TYPE)) = "getMapThumbnailFile"
              /\ Value(request, "width") = Num(Clamped(Last'.width))
              /\ Value(request, "height") = Num(Clamped(Last'.height))
              /\ \A i \in 1..Len(sent) :
                    ToString(Value(sent[i].requestObject, _TYPE)) = "getMapThumbnailFile"
                    => /\ ToInt(Value(sent[i].requestObject, "width")) \in 16..1024
                       /\ ToInt(Value(sent[i].requestObject, "height")) \in 16..1024
      ]_vars

\* A width below the range and a height above it were asked for; the
\* request follows the two of the constructor.
C29_Witness ==
    /\ Len(delivered) = 1
    /\ delivered[1].kind = "getMapThumbnailFile"
    /\ delivered[1].width = 15
    /\ delivered[1].height = 2147483647
    /\ Len(wrapper.requests) = 3
    /\ Value(wrapper.requests[3].requestObject, "width") = Num(16)
    /\ Value(wrapper.requests[3].requestObject, "height") = Num(1024)

(***************************************************************************)
(* NotificationManager: the slots and sendNotifications, statement by      *)
(* statement.  A slot takes chatListMutex, changes the caches, releases    *)
(* the mutex and calls sendNotifications, which takes the mutex, projects  *)
(* the caches, releases the mutex and then hands the projection to the     *)
(* presentation.  Slots run in the context that delivers the updates;      *)
(* sendNotifications is also entered from a second context.                *)
(***************************************************************************)
DiscoveredChats ==
    { [kind |-> "handleChatDiscovered", chatId |-> "100",
       chatInformation |-> Insert(Insert(EmptyMap, "id", Num(100)), "title", Str("Team"))],
      [kind |-> "handleChatDiscovered", chatId |-> "200",
       chatInformation |-> Insert(Insert(EmptyMap, "id", Num(200)), "title", Str("Home"))] }

NotificationGroupUpdates ==
    { [kind |-> "handleUpdateNotificationGroup", groupId |-> 1, type |-> "message",
       chatId |-> 100, added |-> <<[id |-> 1, content |-> "hello"]>>, removed |-> {}],
      [kind |-> "handleUpdateNotificationGroup", groupId |-> 1, type |-> "message",
       chatId |-> 100, added |-> <<[id |-> 2, content |-> "again"]>>, removed |-> {1}],
      [kind |-> "handleUpdateNotificationGroup", groupId |-> 2, type |-> "mention",
       chatId |-> 200, added |-> <<[id |-> 3, content |-> "ping"]>>, removed |-> {}] }

ActiveNotificationsUpdates ==
    { [kind |-> "handleUpdateActiveNotifications", groups |-> <<>>],
      [kind |-> "handleUpdateActiveNotifications",
       groups |-> << [groupId |-> 1, type |-> "message", chatId |-> 100,
                      notifications |-> <<[id |-> 1, content |-> "hello"]>>] >>] }

NotificationUpdates ==
    { [kind |-> "handleUpdateNotification", groupId |-> 1,
       notification |-> [id |-> 1, content |-> "edited"]] }

\* The change a slot makes to the caches.
SlotBody(nm, call) ==
    CASE call.kind = "handleChatDiscovered" ->
            NotificationManager_handleChatDiscovered(nm, call.chatId, call.chatInformation)
      [] call.kind = "handleUpdateActiveNotifications" ->
            NotificationManager_handleUpdateActiveNotifications(nm, call.groups)
      [] call.kind = "handleUpdateNotificationGroup" ->
            NotificationManager_handleUpdateNotificationGroup(nm, call)
      [] call.kind = "handleUpdateNotification" ->
            NotificationManager_handleUpdateNotification(nm, call)

\* chatListMutex.lock() returns once the mutex is free.
Blocked(nm, ctx) ==
    /\ nm.context[ctx].pc \in {"slotLock", "sendLock"}
    /\ nm.chatListMutex # "free"

sendNotifications_presentLocked(nm, ctx) ==
    LET pc == nm.context[ctx].pc
    IN  CASE pc = "sendLock" ->
                [nm EXCEPT !.chatListMutex = ctx, !.context[ctx].pc = "project"]
          [] pc = "project" ->
                [nm EXCEPT !.context[ctx] = [pc |-> "present", payload |-> Rendered(nm)]]
          [] pc = "present" ->
                [nm EXCEPT !.presented = Append(@, nm.context[ctx].payload),
                           !.context[ctx] = [pc |-> "sendUnlock"]]
          [] pc = "sendUnlock" ->
                [nm EXCEPT !.chatListMutex = "free", !.context[ctx] = [pc |-> "idle"]]

\* One statement of sendNotifications in context ctx.
sendNotifications(nm, ctx) ==
    LET pc == nm.context[ctx].pc
    IN  CASE pc = "sendLock" ->
                [nm EXCEPT !.chatListMutex = ctx, !.context[ctx].pc = "project"]
          [] pc = "project" ->
                [nm EXCEPT !.context[ctx] = [pc |-> "sendUnlock", payload |-> Rendered(nm)]]
          [] pc = "sendUnlock" ->
                [nm EXCEPT !.chatListMutex = "free", !.context[ctx].pc = "present"]
          [] pc = "present" ->
                [nm EXCEPT !.presented = Append(@, nm.context[ctx].payload),
                           !.context[ctx] = [pc |-> "idle"]]

\* One statement of a slot in context ctx; its last is the call of
\* sendNotifications.
slot(nm, ctx) ==
    LET pc == nm.context[ctx].pc
    IN  CASE pc = "slotLock" ->
                [nm EXCEPT !.chatListMutex = ctx, !.context[ctx].pc = "slotBody"]
          [] pc = "slotBody" ->
                [SlotBody(nm, nm.context[ctx].call) EXCEPT !.context[ctx].pc = "slotUnlock"]
          [] pc = "slotUnlock" ->
                [nm EXCEPT !.chatListMutex = "free", !.context[ctx] = [pc |-> "sendLock"]]

MaxNotificationUpdates == 2

MaxRecomputes == 1

\* An update arrives and its slot is entered.
NotificationSlot(calls) ==
    /\ Len(delivered) < MaxNotificationUpdates
    /\ notificationManager.context["updates"].pc = "idle"
    /\ \E call \in calls :
          /\ notificationManager' =
                [notificationManager EXCEPT
                    !.context["updates"] = [pc |-> "slotLock", call |-> call]]
          /\ delivered' = Append(delivered, call)
    /\ UNCHANGED <<wrapper, emitted, lifecycle, eventLoop>>

\* sendNotifications is entered from the second context.
Recompute ==
    /\ notificationManager.recomputes < MaxRecomputes
    /\ notificationManager.context["recompute"].pc = "idle"
    /\ notificationManager' =
          [notificationManager EXCEPT !.recomputes = @ + 1,
                                      !.context["recompute"] = [pc |-> "sendLock"]]
    /\ UNCHANGED <<wrapper, delivered, emitted, lifecycle, eventLoop>>

SlotStep ==
    /\ \E ctx \in Contexts :
          /\ notificationManager.context[ctx].pc \in {"slotLock", "slotBody", "slotUnlock"}
          /\ ~Blocked(notificationManager, ctx)
          /\ notificationManager' = slot(notificationManager, ctx)
    /\ UNCHANGED <<wrapper, delivered, emitted, lifecycle, eventLoop>>

SendNotificationsStep ==
    /\ \E ctx \in Contexts :
          /\ notificationManager.context[ctx].pc
                \in {"sendLock", "project", "sendUnlock", "present"}
          /\ ~Blocked(notificationManager, ctx)
          /\ notificationManager' = sendNotifications(notificationManager, ctx)
    /\ UNCHANGED <<wrapper, delivered, emitted, lifecycle, eventLoop>>

NextNotifications ==
    \/ NotificationSlot(DiscoveredChats)
    \/ NotificationSlot(ActiveNotificationsUpdates)
    \/ NotificationSlot(NotificationGroupUpdates)
    \/ NotificationSlot(NotificationUpdates)
    \/ Recompute
    \/ SlotStep
    \/ SendNotificationsStep

SpecNotifications == Init /\ [][NextNotifications]_vars


\* C21: for a chat not yet discovered and a notification-group update that
\* refers to it, the group arriving first leaves the group's entry stale
\* and not rendered; once the chat is discovered the rendered output is
\* the one of the chat arriving first, and it carries the chat's title.
C21_ArrivalOrderIndependent ==
    \A chat \in DiscoveredChats, update \in NotificationGroupUpdates :
        (/\ DecStr(update.chatId) = chat.chatId
         /\ chat.chatId \notin DOMAIN notificationManager.chatMap)
        => LET groupFirst == NotificationManager_handleUpdateNotificationGroup(
                                 notificationManager, update)
               resolved   == NotificationManager_handleChatDiscovered(
                                 groupFirst, chat.chatId, chat.chatInformation)
               chatFirst  == NotificationManager_handleUpdateNotificationGroup(
                                 NotificationManager_handleChatDiscovered(
                                     notificationManager, chat.chatId, chat.chatInformation),
                                 update)
           IN  /\ update.groupId \in DOMAIN groupFirst.notificationGroups
               /\ Stale(groupFirst, update.groupId)
               /\ \A r \in Rendered(groupFirst) : r.groupId # update.groupId
               /\ Rendered(resolved) = Rendered(chatFirst)
               /\ \E r \in Rendered(resolved) :
                     /\ r.groupId = update.groupId
                     /\ r.title = ToString(Value(chat.chatInformation, "title"))

\* The group update for chat 100 came first and was presented without the
\* group, then the chat was discovered and the group presented as "Team".
C21_Witness ==
    /\ Len(delivered) = 2
    /\ delivered[1] \in NotificationGroupUpdates
    /\ delivered[1].chatId = 100
    /\ delivered[2] \in DiscoveredChats
    /\ delivered[2].chatId = "100"
    /\ notificationManager.context["updates"].pc = "idle"
    /\ notificationManager.recomputes = 0
    /\ Len(notificationManager.presented) = 2
    /\ notificationManager.presented[1] = {}
    /\ \E r \in notificationManager.presented[2] :
          r.groupId = delivered[1].groupId /\ r.title = "Team"

CacheStatements == {"slotBody", "project"}

\* C22: a context that reads or writes chatMap or notificationGroups holds
\* chatListMutex, the caches change only in a step of the holder, and the
\* context that makes the presentation call does not hold the mutex.
C22_GuardDiscipline ==
    /\ [](\A ctx \in Contexts :
            notificationManager.context[ctx].pc \in CacheStatements
            => notificationManager.chatListMutex = ctx)
    /\ [](\A ctx \in Contexts :
            notificationManager.context[ctx].pc = "present"
            => notificationManager.chatListMutex # ctx)
    /\ [][ (\/ notificationManager'.chatMap # notificationManager.chatMap
            \/ notificationManager'.notificationGroups
                  # notificationManager.notificationGroups)
           => \E ctx \in Contexts :
                 /\ notificationManager.chatListMutex = ctx
                 /\ notificationManager.context[ctx].pc = "slotBody"
                 /\ notificationManager'.context[ctx].pc # "slotBody" ]_vars
    /\ [][ notificationManager'.presented # notificationManager.presented
           => \E ctx \in Contexts :
                 /\ notificationManager.context[ctx].pc = "present"
                 /\ notificationManager'.context[ctx].pc = "idle"
                 /\ notificationManager.chatListMutex # ctx ]_vars

\* The second context is about to present while a slot, holding the mutex,
\* is about to change the caches.
C22_Witness ==
    /\ notificationManager.context["recompute"].pc = "present"
    /\ notificationManager.context["updates"].pc = "slotBody"
    /\ notificationManager.chatListMutex = "updates"

====
